---- MODULE Spec2Model ----
(***************************************************************************)
(* Model of the DocuLens pipeline execution core: TaskContext, the         *)
(* concrete nodes of doculens_pipeline.py, the PipelineRegistry and the    *)
(* Celery task process_incoming_event with its post-processing hooks.      *)
(***************************************************************************)
EXTENDS Integers, Sequences, FiniteSets, TLC

VARIABLES
    db,        \* events table: sequence of [data, task_context], id = index
    queue,     \* Celery queue of process_incoming_event arguments (event ids)
    vstore,    \* vector store: set of upserted records
    history,   \* document_classification_history rows
    labels,    \* TRUE iff at least one candidate label is configured
    faults,    \* TRUE iff the external services may fail or answer variably
    uuids,     \* number of uuid4() values generated so far
    clock,     \* number of embed_and_upsert_chunks calls that built record ids
    active,    \* the workers / callers that exist in this configuration
    pc,        \* per worker: position inside process_incoming_event
    task,      \* per worker: event id being processed (0 for a direct call)
    event,     \* per worker: the validated event handed to pipeline.run
    chain,     \* per worker: node chain of the instantiated pipeline
    idx,       \* per worker: number of nodes of the chain that returned
    ctx,       \* per worker: TaskContext [nodes, metadata, state]
    invoked,   \* per worker: names of the nodes whose process was invoked
    calls,     \* per worker: external services called during the run
    resolved,  \* per worker: [key, warned] result of get_pipeline_type
    tc0,       \* per worker: task_context stored for the event when loaded
    hook,      \* per worker: post-processing hook outcome of this run
    accepted,  \* number of requests the API handled
    retried,   \* number of re-dispatches of a stored event id
    files,     \* files in the ingestion directory
    responses  \* upload_document requests and the responses they got

vars == <<db, queue, vstore, history, labels, faults, uuids, clock, active, pc, task,
          event, chain, idx, ctx, invoked, calls, resolved, tc0, hook,
          accepted, retried, files, responses>>

workerVars == <<pc, task, event, chain, idx, ctx, invoked, calls, resolved, tc0, hook>>

-----------------------------------------------------------------------------
(* Bounds of the model *)

MaxEvents == 1      \* requests the API handles
MaxRedispatch == 1  \* re-dispatches (retries) of a stored event id
MaxChunks == 2      \* chunks the chunker yields for one document
MaxFetched == 6     \* records a vector-store query returns

Workers == {"w1", "w2"}

(* Program constants *)

SAMPLE_PREVIEWS == 5
VECTOR_ID_PREVIEW == 20
SUMMARY_SOURCE_PREVIEW == 5
summary_chunk_limit == 12
search_result_limit == 10
search_preview_limit == 5

-----------------------------------------------------------------------------
(* Python values *)

None == "None"
EmptyMap == <<>>

Falsy(s) == s \in {None, ""}

NoInt == <<>>
SomeInt(n) == <<n>>

Min(a, b) == IF a < b THEN a ELSE b

Put(m, k, v) == (k :> v) @@ m

Pop(m, k) == [x \in (DOMAIN m) \ {k} |-> m[x]]

Get(m, k, default) == IF k \in DOMAIN m THEN m[k] ELSE default

Take(s, n) == SubSeq(s, 1, Min(Len(s), n))

\* a variant that answers the same identifier every time
uuid4_constant(n) == "u0"

uuid4(n) == "u" \o ToString(n)

-----------------------------------------------------------------------------
(* Events: app/api/event_schema.py *)

EventVariants ==
    {"document_upload", "document_classification", "information_extraction",
     "search_query", "document_routing", "document_summary", "qa_query"}

Payload(t, docid, fname, url) ==
    [event_type |-> t, document_id |-> docid, filename |-> fname,
     file_url |-> url, doc_type |-> None, limit |-> NoInt]

\* a variant that accepts a summary event without an identifier
validate_identifier_lenient(data) == TRUE

validate_identifier(data) ==
    ~(Falsy(data.document_id) /\ Falsy(data.filename))

\* event_schema_adapter.validate_python: TRUE iff the payload is one variant
validate_python(data) ==
    /\ data.event_type \in EventVariants
    /\ data.event_type = "document_summary" => validate_identifier(data)

-----------------------------------------------------------------------------
(* PipelineRegistry: app/pipelines/registry.py *)

\* a variant of the registry shipped without the "default" entry
pipelines_without_default ==
    [document_upload         |-> "DoculensDocumentPipeline",
     document_classification |-> "DoculensClassificationPipeline",
     information_extraction  |-> "DoculensExtractionPipeline",
     document_routing        |-> "DoculensRoutingPipeline",
     search_query            |-> "DoculensSearchPipeline",
     document_summary        |-> "DoculensSummaryPipeline",
     qa_query                |-> "DoculensQAPipeline"]

pipelines ==
    [default                 |-> "DoculensDocumentPipeline",
     document_upload         |-> "DoculensDocumentPipeline",
     document_classification |-> "DoculensClassificationPipeline",
     information_extraction  |-> "DoculensExtractionPipeline",
     document_routing        |-> "DoculensRoutingPipeline",
     search_query            |-> "DoculensSearchPipeline",
     document_summary        |-> "DoculensSummaryPipeline",
     qa_query                |-> "DoculensQAPipeline"]

PipelineClasses == {pipelines[k] : k \in DOMAIN pipelines}

\* a variant whose ingestion schema starts at ChunkingNode
pipeline_schema_misordered(cls) ==
    IF cls = "DoculensDocumentPipeline"
    THEN <<"ChunkingNode", "ExtractionNode", "EmbeddingNode">>
    ELSE <<"SemanticSearchNode">>

\* pipeline_schema of every pipeline class, as the chain start -> connections
pipeline_schema(cls) ==
    CASE cls = "DoculensDocumentPipeline" ->
             <<"ExtractionNode", "ChunkingNode", "EmbeddingNode">>
      [] cls = "DoculensClassificationPipeline" -> <<"DocumentClassificationNode">>
      [] cls = "DoculensExtractionPipeline" -> <<"InformationExtractionNode">>
      [] cls = "DoculensRoutingPipeline" -> <<"DocumentRoutingNode">>
      [] cls = "DoculensSearchPipeline" -> <<"SemanticSearchNode">>
      [] cls = "DoculensSummaryPipeline" -> <<"DocumentSummaryNode">>
      [] cls = "DoculensQAPipeline" -> <<"QAQueryNode">>

\* a variant without the fallback to "default"
get_pipeline_type_no_fallback(e) == [key |-> e.event_type, warned |-> FALSE]

get_pipeline_type(e) ==
    IF e.event_type \in DOMAIN pipelines
    THEN [key |-> e.event_type, warned |-> FALSE]
    ELSE [key |-> "default", warned |-> TRUE]

\* get_pipeline: the class instantiated, or None for "Unknown pipeline type"
get_pipeline(e) ==
    LET pipeline_type == get_pipeline_type(e).key
    IN IF pipeline_type \in DOMAIN pipelines THEN pipelines[pipeline_type] ELSE None

NodeNames ==
    {"ExtractionNode", "ChunkingNode", "EmbeddingNode",
     "DocumentClassificationNode", "InformationExtractionNode",
     "DocumentRoutingNode", "DocumentSummaryNode", "QAQueryNode",
     "SemanticSearchNode"}

LLMNodes ==
    {"DocumentClassificationNode", "InformationExtractionNode",
     "DocumentRoutingNode", "DocumentSummaryNode", "QAQueryNode"}

-----------------------------------------------------------------------------
(* Event guards: _require_*_event of doculens_pipeline.py *)

\* a variant that accepts every event
_require_event_lenient(variant, e) == TRUE

_require_event(variant, e) == e.event_type = variant

\* the variant a node checks for; None when its process checks nothing
ExpectedVariant(n) ==
    CASE n = "ExtractionNode" -> "document_upload"
      [] n = "DocumentClassificationNode" -> "document_classification"
      [] n = "InformationExtractionNode" -> "information_extraction"
      [] n = "DocumentRoutingNode" -> "document_routing"
      [] n = "DocumentSummaryNode" -> "document_summary"
      [] n = "QAQueryNode" -> "qa_query"
      [] n = "SemanticSearchNode" -> "search_query"
      [] OTHER -> None

\* the variant the node is written for (its pipeline's event type)
IntendedVariant(n) ==
    IF n \in {"ChunkingNode", "EmbeddingNode"} THEN "document_upload"
    ELSE ExpectedVariant(n)

-----------------------------------------------------------------------------
(* Outcome of one call of Node.process *)

\* an external call and the number of records it answered (-1: it raised)
Call(svc, n) == [svc |-> svc, n |-> n]

\* a call of semantic_search_docling(limit=limit) that answered n records
Search(limit, n) == [svc |-> "semantic_search", n |-> n, limit |-> limit]

Return(c, cs, u) == [ok |-> TRUE, ctx |-> c, calls |-> cs, uuids |-> u, upsert |-> {}]
Raise(c, cs, u) == [ok |-> FALSE, ctx |-> c, calls |-> cs, uuids |-> u, upsert |-> {}]

-----------------------------------------------------------------------------
(* ExtractionNode.process *)

\* outcomes of requests.get, Path.exists and extract_docling_document
ExtractionExt == [download : {"ok", "fail"}, exists : BOOLEAN, convert : {"doc", "none"}]

ExtractionNode_process(c, e, u, x) ==
    IF ~_require_event("document_upload", e) THEN Raise(c, <<>>, 0)
    ELSE
    LET document_id == Get(Get(c.metadata, "document", EmptyMap), "id", u)
        filename == IF Falsy(e.filename) THEN document_id \o ".bin" ELSE e.filename
        by_url == ~Falsy(e.file_url)
        local_path == IF by_url THEN document_id \o "_" \o filename ELSE e.filename
        fetched == IF by_url THEN <<Call("download", 0)>> ELSE <<>>
    IN  IF by_url /\ x.download # "ok" THEN Raise(c, <<Call("download", 0)>>, 1)
        ELSE IF ~by_url /\ ~x.exists THEN Raise(c, <<>>, 1)
        ELSE IF x.convert # "doc" THEN Raise(c, fetched \o <<Call("convert", 0)>>, 1)
        ELSE Return(
            [nodes |-> Put(c.nodes, "ExtractionNode",
                           [document_id |-> document_id, local_path |-> local_path]),
             metadata |-> Put(c.metadata, "document",
                           [id |-> document_id,
                            original_filename |-> filename,
                            source_url |-> e.file_url,
                            local_path |-> local_path,
                            ingest_source |-> e.filename,
                            doc_type |-> e.doc_type]),
             state |-> Put(Put(c.state, "docling_doc", "doc"), "local_path", local_path)],
            fetched \o <<Call("convert", 0)>>, 1)

-----------------------------------------------------------------------------
(* ChunkingNode.process *)

\* the chunks HybridChunker yields for the document
ChunkingExt == {[i \in 1..n |-> "t"] : n \in 0..MaxChunks}

chunk_document(docling_doc, texts) ==
    IF docling_doc = None THEN [ok |-> FALSE, chunks |-> <<>>, calls |-> <<>>]
    ELSE [ok |-> TRUE, chunks |-> texts, calls |-> <<Call("chunk", 0)>>]

\* a variant that assigns a new nodes mapping instead of adding its entry
ChunkingNode_process_replacing(c, texts) ==
    LET r == chunk_document(Get(c.state, "docling_doc", None), texts)
    IN  IF ~r.ok THEN Raise(c, r.calls, 0)
        ELSE Return(
            [nodes |-> "ChunkingNode" :> [chunk_count |-> Len(r.chunks),
                                          sample_previews |-> Take(r.chunks, SAMPLE_PREVIEWS)],
             metadata |-> c.metadata,
             state |-> Put(c.state, "chunks", r.chunks)],
            r.calls, 0)

ChunkingNode_process(c, texts) ==
    LET r == chunk_document(Get(c.state, "docling_doc", None), texts)
        chunk_count == Len(r.chunks)
    IN  IF ~r.ok THEN Raise(c, r.calls, 0)
        ELSE Return(
            [nodes |-> Put(c.nodes, "ChunkingNode",
                           [chunk_count |-> chunk_count,
                            sample_previews |-> Take(r.chunks, SAMPLE_PREVIEWS)]),
             metadata |-> IF "document" \in DOMAIN c.metadata
                          THEN Put(c.metadata, "document",
                                   Put(c.metadata["document"], "chunk_count", chunk_count))
                          ELSE c.metadata,
             state |-> Put(c.state, "chunks", r.chunks)],
            r.calls, 0)

-----------------------------------------------------------------------------
(* EmbeddingNode.process and doc_utils/embedding.py *)

EmbeddingExt == {"ok", "embed_fail", "upsert_fail"}

\* a variant that builds records for range(len(chunks) - 1): the last chunk is lost
embed_and_upsert_chunks_short(chunks, document_id, base_time, x) ==
    LET records == [i \in 1..(Len(chunks) - 1) |->
                       [id |-> <<base_time, i - 1>>,
                        document_id |-> document_id,
                        chunk_index |-> i - 1,
                        contents |-> chunks[i]]]
    IN  IF chunks = <<>> \/ x # "ok"
        THEN [ok |-> chunks = <<>>, summaries |-> <<>>, calls |-> <<>>, upsert |-> {}]
        ELSE [ok |-> TRUE, summaries |-> records,
              calls |-> <<Call("embed", 0), Call("upsert", 0)>>,
              upsert |-> {records[i] : i \in 1..Len(records)}]

\* a variant whose record ids depend on the chunk position alone
embed_and_upsert_chunks_positional(chunks, document_id, base_time, x) ==
    LET records == [i \in 1..Len(chunks) |->
                       [id |-> <<0, i - 1>>,
                        document_id |-> document_id,
                        chunk_index |-> i - 1,
                        contents |-> chunks[i]]]
    IN  IF chunks = <<>> \/ x # "ok"
        THEN [ok |-> chunks = <<>>, summaries |-> <<>>, calls |-> <<>>, upsert |-> {}]
        ELSE [ok |-> TRUE, summaries |-> records,
              calls |-> <<Call("embed", 0), Call("upsert", 0)>>,
              upsert |-> {records[i] : i \in 1..Len(records)}]

\* the records built for the chunks: one per chunk, ids from base_time + index
embed_and_upsert_chunks(chunks, document_id, base_time, x) ==
    LET records == [i \in 1..Len(chunks) |->
                       [id |-> <<base_time, i - 1>>,
                        document_id |-> document_id,
                        chunk_index |-> i - 1,
                        contents |-> chunks[i]]]
    IN  IF chunks = <<>> THEN [ok |-> TRUE, summaries |-> <<>>, calls |-> <<>>, upsert |-> {}]
        ELSE IF x = "embed_fail"
             THEN [ok |-> FALSE, summaries |-> <<>>, calls |-> <<Call("embed", 0)>>, upsert |-> {}]
        ELSE IF x = "upsert_fail"
             THEN [ok |-> FALSE, summaries |-> <<>>, calls |-> <<Call("embed", 0), Call("upsert", 0)>>, upsert |-> {}]
        ELSE [ok |-> TRUE, summaries |-> records, calls |-> <<Call("embed", 0), Call("upsert", 0)>>,
              upsert |-> {records[i] : i \in 1..Len(chunks)}]

\* a variant that draws a new document id whether or not one is set
EmbeddingNode_process_fresh_id(c, u, base_time, x) ==
    LET chunks == Get(c.state, "chunks", <<>>)
        meta0 == Get(c.metadata, "document", EmptyMap)
        meta1 == Put(meta0, "id", u)
        r == embed_and_upsert_chunks(chunks, u, base_time, x)
        chunk_ids == [i \in 1..Len(r.summaries) |-> r.summaries[i].id]
        meta2 == Put(Put(meta1, "vector_ids", chunk_ids),
                     "embedded_chunk_count", Len(chunk_ids))
    IN  IF ~r.ok
        THEN Raise([c EXCEPT !.metadata = Put(@, "document", meta1)], r.calls, 1)
        ELSE [Return(
                [nodes |-> Put(c.nodes, "EmbeddingNode",
                               [embedded_chunks |-> Len(chunk_ids),
                                vector_ids |-> Take(chunk_ids, VECTOR_ID_PREVIEW),
                                vector_ids_truncated |->
                                    Len(Take(chunk_ids, VECTOR_ID_PREVIEW)) < Len(chunk_ids)]),
                 metadata |-> Put(c.metadata, "document", meta2),
                 state |-> Pop(Pop(c.state, "chunks"), "docling_doc")],
                r.calls, 1) EXCEPT !.upsert = r.upsert]

EmbeddingNode_process(c, u, base_time, x) ==
    LET chunks == Get(c.state, "chunks", <<>>)
        meta0 == Get(c.metadata, "document", EmptyMap)
        fresh == Falsy(Get(meta0, "id", None))
        document_id == IF fresh THEN u ELSE meta0["id"]
        used == IF fresh THEN 1 ELSE 0
        meta1 == Put(meta0, "id", document_id)
        r == embed_and_upsert_chunks(chunks, document_id, base_time, x)
        chunk_ids == [i \in 1..Len(r.summaries) |-> r.summaries[i].id]
        meta2 == Put(Put(meta1, "vector_ids", chunk_ids),
                     "embedded_chunk_count", Len(chunk_ids))
    IN  IF ~r.ok
        THEN Raise([c EXCEPT !.metadata = Put(@, "document", meta1)], r.calls, used)
        ELSE [Return(
                [nodes |-> Put(c.nodes, "EmbeddingNode",
                               [embedded_chunks |-> Len(chunk_ids),
                                vector_ids |-> Take(chunk_ids, VECTOR_ID_PREVIEW),
                                vector_ids_truncated |->
                                    Len(Take(chunk_ids, VECTOR_ID_PREVIEW)) < Len(chunk_ids)]),
                 metadata |-> Put(c.metadata, "document", meta2),
                 state |-> Pop(Pop(c.state, "chunks"), "docling_doc")],
                r.calls, used) EXCEPT !.upsert = r.upsert]

-----------------------------------------------------------------------------
(* Vector-store queries: fetch_document_chunks and semantic_search_docling *)

\* what the store and the LLM answer during one call of process
LLMExt == [store : {"ok"}, found : {0}, chunk_doc : {None}, llm : {"ok", "fail"}]

SummaryExt ==
    [store : {"ok", "fail"}, found : 0..MaxFetched,
     chunk_doc : {"d1", None, ""}, llm : {"ok", "fail"}]

QAExt ==
    [store : {"ok", "fail"}, found : 0..MaxFetched,
     chunk_doc : {"d1", None}, llm : {"ok", "fail"}]

SearchExt ==
    [store : {"ok", "fail"}, found : 0..MaxFetched, chunk_doc : {"d1"}, llm : {"ok"}]

NodeExt(n) ==
    CASE n = "DocumentSummaryNode" -> SummaryExt
      [] n = "QAQueryNode" -> QAExt
      [] n = "SemanticSearchNode" -> SearchExt
      [] OTHER -> LLMExt

\* the normalized records of a query that found n rows: id, metadata, contents
StoreRecords(n, chunk_doc) ==
    [i \in 1..n |->
        [id |-> "v" \o ToString(i),
         metadata |-> [document_id |-> chunk_doc, chunk_index |-> i - 1,
                       reference |-> None, filename |-> None],
         contents |-> "t"]]

-----------------------------------------------------------------------------
(* DoculensLLMNode and its subclasses *)

ResponseModel(n) ==
    CASE n = "DocumentClassificationNode" -> [document_type |-> "invoice"]
      [] n = "InformationExtractionNode" -> [fields |-> <<>>]
      [] n = "DocumentRoutingNode" -> [assigned_department |-> "finance"]
      [] n = "DocumentSummaryNode" -> [summary |-> "s"]
      [] n = "QAQueryNode" -> [answer |-> "a"]

GotContext(c, cs) == [ok |-> TRUE, ctx |-> c, calls |-> cs]
NoContext(c, cs) == [ok |-> FALSE, ctx |-> c, calls |-> cs]

DocumentSummaryNode_get_context(c, e, x) ==
    IF ~_require_event("document_summary", e) THEN NoContext(c, <<>>)
    ELSE IF x.store # "ok" THEN NoContext(c, <<Call("fetch_document_chunks", -1)>>)
    ELSE
    LET chunks == StoreRecords(x.found, x.chunk_doc)
        fetched == <<Call("fetch_document_chunks", Len(chunks))>>
    IN  IF chunks = <<>> THEN NoContext(c, fetched)
        ELSE
        LET chunk_meta == chunks[1].metadata
            resolved_document_id ==
                IF Falsy(e.document_id) THEN chunk_meta.document_id ELSE e.document_id
            resolved_filename ==
                IF Falsy(e.filename) THEN chunk_meta.filename ELSE e.filename
            context == [document_id |-> resolved_document_id,
                        doc_type |-> e.doc_type,
                        filename |-> resolved_filename]
        IN  \* ContextModel.document_id is a required str
            IF resolved_document_id = None
            THEN NoContext(c, fetched)
            ELSE GotContext(
                    [c EXCEPT !.state = Put(Put(@, "summary_chunks", chunks),
                                            "summary_context", context)],
                    fetched)

\* a variant that counts only the chunks listed in the node result
DocumentSummaryNode_after_completion_previewed(c, e, response) ==
    LET chunks == Take(Get(c.state, "summary_chunks", <<>>), SUMMARY_SOURCE_PREVIEW)
        key == IF Falsy(e.document_id) THEN "latest" ELSE e.document_id
    IN  [nodes |-> Put(c.nodes, "DocumentSummaryNode",
                       [summary |-> response.summary,
                        source_chunks |->
                            [i \in 1..Len(chunks) |->
                                [id |-> chunks[i].id,
                                 document_id |-> chunks[i].metadata.document_id,
                                 chunk_index |-> chunks[i].metadata.chunk_index]]]),
         metadata |-> Put(c.metadata, "document_summaries",
                          key :> [summary |-> response.summary,
                                  source_chunk_count |-> Len(chunks)]),
         state |-> Pop(Pop(c.state, "summary_chunks"), "summary_context")]

DocumentSummaryNode_after_completion(c, e, response) ==
    LET chunks == Get(c.state, "summary_chunks", <<>>)
        has_context == "summary_context" \in DOMAIN c.state
        state1 == Pop(Pop(c.state, "summary_chunks"), "summary_context")
        event_id == IF e.event_type = "document_summary" THEN e.document_id ELSE None
        document_id == IF Falsy(event_id) /\ chunks # <<>>
                       THEN chunks[1].metadata.document_id ELSE event_id
        summary_payload ==
            [summary |-> response.summary, source_chunk_count |-> Len(chunks)]
            @@ (IF has_context THEN c.state["summary_context"] ELSE EmptyMap)
        summaries == Get(c.metadata, "document_summaries", EmptyMap)
        key == IF Falsy(document_id) THEN "latest" ELSE document_id
        shown == Take(chunks, SUMMARY_SOURCE_PREVIEW)
    IN  [nodes |-> Put(c.nodes, "DocumentSummaryNode",
                       [summary |-> response.summary,
                        source_chunks |->
                            [i \in 1..Len(shown) |->
                                [id |-> shown[i].id,
                                 document_id |-> shown[i].metadata.document_id,
                                 chunk_index |-> shown[i].metadata.chunk_index]]]),
         metadata |-> Put(c.metadata, "document_summaries",
                          Put(summaries, key, summary_payload)),
         state |-> state1]

\* a variant without the check for an empty result list
QAQueryNode_get_context_unchecked(c, e, x) ==
    IF ~_require_event("qa_query", e) THEN NoContext(c, <<>>)
    ELSE IF x.store # "ok" THEN NoContext(c, <<Call("semantic_search", -1)>>)
    ELSE GotContext([c EXCEPT !.state = Put(@, "qa_chunks", <<>>)],
                    <<Call("semantic_search", x.found)>>)

QAQueryNode_get_context(c, e, x) ==
    IF ~_require_event("qa_query", e) THEN NoContext(c, <<>>)
    ELSE IF x.store # "ok" THEN NoContext(c, <<Call("semantic_search", -1)>>)
    ELSE
    LET results == StoreRecords(x.found, x.chunk_doc)
        searched == <<Call("semantic_search", Len(results))>>
        chunks == [i \in 1..Len(results) |->
            LET metadata == results[i].metadata
                chunk_index_int == metadata.chunk_index
                reference ==
                    IF Falsy(metadata.reference)
                    THEN (IF metadata.document_id = None THEN "doc"
                          ELSE metadata.document_id)
                         \o "#chunk-" \o ToString(chunk_index_int)
                    ELSE metadata.reference
            IN [reference |-> reference,
                document_id |-> metadata.document_id,
                filename |-> metadata.filename,
                chunk_index |-> chunk_index_int]]
    IN  IF results = <<>> THEN NoContext(c, searched)
        ELSE GotContext([c EXCEPT !.state = Put(@, "qa_chunks", chunks)], searched)

\* a variant that lists the references in reverse retrieval order
QAQueryNode_after_completion_reversed(c, response) ==
    LET found == Get(c.state, "qa_chunks", <<>>)
        chunks == [i \in 1..Len(found) |-> found[Len(found) + 1 - i]]
    IN  [nodes |-> Put(c.nodes, "QAQueryNode",
                       [answer |-> response.answer, chunk_references |-> chunks]),
         metadata |-> Put(c.metadata, "qa",
                          [answer |-> response.answer,
                           used_chunks |-> [i \in 1..Len(chunks) |-> chunks[i].reference]]),
         state |-> Pop(c.state, "qa_chunks")]

\* a variant that leaves the retrieved chunks in state
QAQueryNode_after_completion_keeping(c, response) ==
    LET chunks == Get(c.state, "qa_chunks", <<>>)
    IN  [nodes |-> Put(c.nodes, "QAQueryNode",
                       [answer |-> response.answer, chunk_references |-> chunks]),
         metadata |-> Put(c.metadata, "qa",
                          [answer |-> response.answer,
                           used_chunks |-> [i \in 1..Len(chunks) |-> chunks[i].reference]]),
         state |-> c.state]

QAQueryNode_after_completion(c, response) ==
    LET chunks == Get(c.state, "qa_chunks", <<>>)
    IN  [nodes |-> Put(c.nodes, "QAQueryNode",
                       [answer |-> response.answer, chunk_references |-> chunks]),
         metadata |-> Put(c.metadata, "qa",
                          [answer |-> response.answer,
                           used_chunks |-> [i \in 1..Len(chunks) |-> chunks[i].reference]]),
         state |-> Pop(c.state, "qa_chunks")]

\* get_context of the node: validates the event, then builds the LLM context
get_context(n, c, e, x) ==
    CASE n = "DocumentSummaryNode" -> DocumentSummaryNode_get_context(c, e, x)
      [] n = "QAQueryNode" -> QAQueryNode_get_context(c, e, x)
      [] OTHER -> IF _require_event(ExpectedVariant(n), e)
                  THEN GotContext(c, <<>>) ELSE NoContext(c, <<>>)

after_completion(n, c, e, response) ==
    CASE n = "DocumentSummaryNode" -> DocumentSummaryNode_after_completion(c, e, response)
      [] n = "QAQueryNode" -> QAQueryNode_after_completion(c, response)
      [] n = "DocumentClassificationNode" ->
            [c EXCEPT !.metadata = Put(@, "classification", response)]
      [] n = "InformationExtractionNode" ->
            [c EXCEPT !.metadata = Put(@, "extraction", response)]
      [] n = "DocumentRoutingNode" ->
            [c EXCEPT !.metadata = Put(@, "routing", response)]

DoculensLLMNode_process(n, c, e, x) ==
    LET g == get_context(n, c, e, x)
    IN  IF ~g.ok THEN Raise(g.ctx, g.calls, 0)
        ELSE IF x.llm # "ok" THEN Raise(g.ctx, g.calls \o <<Call("llm", 0)>>, 0)
        ELSE LET response == ResponseModel(n)
                 c1 == [g.ctx EXCEPT !.nodes = Put(@, n, [result |-> response])]
             IN Return(after_completion(n, c1, e, response), g.calls \o <<Call("llm", 0)>>, 0)

-----------------------------------------------------------------------------
(* SemanticSearchNode.process *)

\* a variant whose truncation flag compares with the requested limit
SemanticSearchNode_process_flag_by_limit(c, e, x) ==
    IF ~_require_event("search_query", e) THEN Raise(c, <<>>, 0)
    ELSE
    LET search_limit == IF e.limit = NoInt \/ e.limit = SomeInt(0)
                        THEN search_result_limit ELSE e.limit[1]
        results == StoreRecords(x.found, x.chunk_doc)
        preview == Take(results, search_preview_limit)
    IN  IF x.store # "ok" THEN Raise(c, <<Search(search_limit, -1)>>, 0)
        ELSE Return(
            [nodes |-> Put(c.nodes, "SemanticSearchNode",
                           [result_count |-> Len(results),
                            preview |-> preview,
                            results_truncated |-> search_limit < Len(results),
                            limit |-> search_limit]),
             metadata |-> Put(c.metadata, "search",
                           [limit |-> search_limit, results |-> results]),
             state |-> c.state],
            <<Search(search_limit, Len(results))>>, 0)

SemanticSearchNode_process(c, e, x) ==
    IF ~_require_event("search_query", e) THEN Raise(c, <<>>, 0)
    ELSE
    LET search_limit == IF e.limit = NoInt \/ e.limit = SomeInt(0)
                        THEN search_result_limit ELSE e.limit[1]
        results == StoreRecords(x.found, x.chunk_doc)
        preview == Take(results, search_preview_limit)
    IN  IF x.store # "ok" THEN Raise(c, <<Search(search_limit, -1)>>, 0)
        ELSE Return(
            [nodes |-> Put(c.nodes, "SemanticSearchNode",
                           [result_count |-> Len(results),
                            preview |-> preview,
                            results_truncated |-> Len(preview) < Len(results),
                            limit |-> search_limit]),
             metadata |-> Put(c.metadata, "search",
                           [limit |-> search_limit, results |-> results]),
             state |-> c.state],
            <<Search(search_limit, Len(results))>>, 0)

-----------------------------------------------------------------------------
(* TaskContext: app/core/task.py *)

NewContext == [nodes |-> EmptyMap, metadata |-> EmptyMap, state |-> EmptyMap]

TaskContext(e, c) ==
    [event |-> e, nodes |-> c.nodes, metadata |-> c.metadata, state |-> c.state]

\* fields declared with exclude=True
ExcludedFields == {"state"}

\* a variant that ignores exclude=True
model_dump_everything(tc) == tc

model_dump(tc) == [k \in (DOMAIN tc) \ ExcludedFields |-> tc[k]]

NoTaskContext == <<>>

-----------------------------------------------------------------------------
(* Initial states *)

IdleWorker ==
    /\ pc = [w \in Workers |-> "idle"]
    /\ task = [w \in Workers |-> 0]
    /\ event = [w \in Workers |-> Payload(None, None, None, None)]
    /\ chain = [w \in Workers |-> <<>>]
    /\ idx = [w \in Workers |-> 0]
    /\ ctx = [w \in Workers |-> NewContext]
    /\ invoked = [w \in Workers |-> <<>>]
    /\ calls = [w \in Workers |-> <<>>]
    /\ resolved = [w \in Workers |-> [key |-> None, warned |-> FALSE]]
    /\ tc0 = [w \in Workers |-> NoTaskContext]
    /\ hook = [w \in Workers |-> "none"]

EmptySystem ==
    /\ db = <<>>
    /\ queue = <<>>
    /\ vstore = {}
    /\ history = {}
    /\ uuids = 0
    /\ clock = 0
    /\ accepted = 0
    /\ retried = 0
    /\ files = {}
    /\ responses = <<>>

\* one Celery worker processing the queue
Init ==
    /\ EmptySystem
    /\ IdleWorker
    /\ labels \in BOOLEAN
    /\ faults = TRUE
    /\ active = {"w1"}

-----------------------------------------------------------------------------
(* API: handle_event and _store_event_and_dispatch *)

ApiPayloads ==
    {Payload("document_upload", None, "a.pdf", "http://a"),
     Payload("document_upload", None, "ingestion/b.pdf", ""),
     Payload("document_summary", "d1", None, None),
     Payload("document_summary", None, "a.pdf", None),
     Payload("qa_query", None, None, None),
     Payload("search_query", None, None, None),
     [Payload("search_query", None, None, None) EXCEPT !.limit = SomeInt(3)],
     [Payload("search_query", None, None, None) EXCEPT !.limit = SomeInt(0)],
     Payload("document_classification", "d1", None, None),
     Payload("information_extraction", "d1", None, None),
     Payload("document_routing", "d1", None, None)}

\* session.add(event); session.commit(); celery_app.send_task(...)
_store_event_and_dispatch(payload) ==
    /\ accepted < MaxEvents
    /\ accepted' = accepted + 1
    /\ db' = Append(db, [data |-> payload, task_context |-> NoTaskContext])
    /\ queue' = Append(queue, Len(db) + 1)

handle_event ==
    /\ \E payload \in ApiPayloads : _store_event_and_dispatch(payload)
    /\ UNCHANGED <<vstore, history, labels, faults, files, responses, uuids, clock, active,
                   workerVars, retried>>

\* values of the metadata form field: absent, empty, malformed text, a JSON
\* array and a JSON object
MetadataForms == {None, "", "{bad", "[1]", "{}"}

UploadNames == {"a.pdf", ""}

\* json.loads(text): whether it parses, and whether the value is a dict
json_loads(text) ==
    CASE text = "{}" -> [ok |-> TRUE, is_dict |-> TRUE]
      [] text = "[1]" -> [ok |-> TRUE, is_dict |-> FALSE]
      [] OTHER -> [ok |-> FALSE, is_dict |-> FALSE]

Response(filename, metadata, stored_path, status) ==
    [filename |-> filename, metadata |-> metadata,
     stored_path |-> stored_path, status |-> status]

\* a variant that leaves the stored file in place when it rejects the metadata
upload_document_keeping_file(filename, metadata) ==
    LET stored_path == uuid4(uuids + 1) \o "_" \o filename
        decoded == json_loads(metadata)
    IN  /\ accepted < MaxEvents
        /\ ~Falsy(filename)
        /\ ~Falsy(metadata) /\ ~(decoded.ok /\ decoded.is_dict)
        /\ uuids' = uuids + 1
        /\ files' = files \cup {stored_path}
        /\ responses' = Append(responses, Response(filename, metadata, stored_path, 400))
        /\ accepted' = accepted + 1
        /\ UNCHANGED <<db, queue>>

upload_document(filename, metadata) ==
    LET stored_path == uuid4(uuids + 1) \o "_" \o filename
        decoded == json_loads(metadata)
        written == files \cup {stored_path}
    IN  /\ accepted < MaxEvents
        /\ IF Falsy(filename)
           THEN /\ responses' = Append(responses, Response(filename, metadata, None, 400))
                /\ accepted' = accepted + 1
                /\ UNCHANGED <<db, queue, uuids, files>>
           ELSE /\ uuids' = uuids + 1
                /\ IF ~Falsy(metadata) /\ ~(decoded.ok /\ decoded.is_dict)
                   THEN /\ files' = written \ {stored_path}
                        /\ responses' = Append(responses,
                               Response(filename, metadata, stored_path, 400))
                        /\ accepted' = accepted + 1
                        /\ UNCHANGED <<db, queue>>
                   ELSE /\ files' = written
                        /\ _store_event_and_dispatch(
                               Payload("document_upload", None, stored_path, ""))
                        /\ responses' = Append(responses,
                               Response(filename, metadata, stored_path, 202))

UploadRequest ==
    /\ \E filename \in UploadNames, metadata \in MetadataForms :
          upload_document(filename, metadata)
    /\ UNCHANGED <<vstore, history, labels, faults, clock, active, workerVars, retried>>


\* a retry: the same event id is dispatched again
Redispatch ==
    \E id \in 1..Len(db) :
        /\ retried < MaxRedispatch
        /\ retried' = retried + 1
        /\ queue' = Append(queue, id)
        /\ UNCHANGED <<db, vstore, history, labels, faults, files, responses, uuids, clock, active,
                       workerVars, accepted>>

-----------------------------------------------------------------------------
(* process_incoming_event: app/tasks/tasks.py *)

\* a variant in which every run works on one shared TaskContext object
BeginRun_shared_context(w, id, e, key, nodes, c) ==
    /\ task' = [task EXCEPT ![w] = id]
    /\ event' = [event EXCEPT ![w] = e]
    /\ resolved' = [resolved EXCEPT ![w] = key]
    /\ chain' = [chain EXCEPT ![w] = nodes]
    /\ idx' = [idx EXCEPT ![w] = 0]
    /\ ctx' = [v \in Workers |-> c]
    /\ invoked' = [invoked EXCEPT ![w] = <<>>]
    /\ calls' = [calls EXCEPT ![w] = <<>>]
    /\ hook' = [hook EXCEPT ![w] = "none"]

BeginRun(w, id, e, key, nodes, c) ==
    /\ task' = [task EXCEPT ![w] = id]
    /\ event' = [event EXCEPT ![w] = e]
    /\ resolved' = [resolved EXCEPT ![w] = key]
    /\ chain' = [chain EXCEPT ![w] = nodes]
    /\ idx' = [idx EXCEPT ![w] = 0]
    /\ ctx' = [ctx EXCEPT ![w] = c]
    /\ invoked' = [invoked EXCEPT ![w] = <<>>]
    /\ calls' = [calls EXCEPT ![w] = <<>>]
    /\ hook' = [hook EXCEPT ![w] = "none"]

\* the task is taken from the queue; the event is loaded, validated and its
\* pipeline instantiated
StartTask(w) ==
    /\ w \in active
    /\ pc[w] = "idle"
    /\ queue # <<>>
    /\ LET id == Head(queue)
           found == id \in 1..Len(db)
           data == IF found THEN db[id].data ELSE Payload(None, None, None, None)
           valid == found /\ validate_python(data)
           cls == get_pipeline(data)
       IN  /\ queue' = Tail(queue)
           /\ tc0' = [tc0 EXCEPT ![w] = IF found THEN db[id].task_context ELSE NoTaskContext]
           /\ IF valid /\ cls # None
              THEN /\ pc' = [pc EXCEPT ![w] = "running"]
                   /\ BeginRun(w, id, data, get_pipeline_type(data),
                               pipeline_schema(cls), NewContext)
              ELSE /\ pc' = [pc EXCEPT ![w] = "raised"]
                   /\ BeginRun(w, id, data, [key |-> None, warned |-> FALSE],
                               <<>>, NewContext)
    /\ UNCHANGED <<db, vstore, history, labels, faults, files, responses, uuids, clock, active, accepted, retried>>

-----------------------------------------------------------------------------
(* Pipeline.run: the nodes of the chain are processed in order *)

\* what the external services of node n may answer in this configuration
Outcomes(n) ==
    CASE n = "ExtractionNode" ->
            IF faults THEN ExtractionExt
            ELSE {[download |-> "ok", exists |-> TRUE, convert |-> "doc"]}
      [] n = "ChunkingNode" ->
            IF faults THEN ChunkingExt ELSE {[i \in 1..MaxChunks |-> "t"]}
      [] n = "EmbeddingNode" ->
            IF faults THEN EmbeddingExt ELSE {"ok"}
      [] OTHER ->
            IF faults THEN NodeExt(n)
            ELSE {[store |-> "ok", found |-> 1, chunk_doc |-> "d1", llm |-> "ok"]}

\* VectorStore.upsert: a record replaces the stored record of the same id
upsert(store, records) ==
    {s \in store : \A r \in records : r.id # s.id} \cup records

\* the effect of one call of process that answered r
Processed(w, n, r) ==
    /\ invoked' = [invoked EXCEPT ![w] = Append(@, n)]
    /\ calls' = [calls EXCEPT ![w] = @ \o r.calls]
    /\ ctx' = [ctx EXCEPT ![w] = r.ctx]
    /\ uuids' = uuids + r.uuids
    /\ vstore' = upsert(vstore, r.upsert)
    /\ clock' = IF r.upsert # {} THEN clock + 1 ELSE clock
    /\ IF r.ok
       THEN /\ idx' = [idx EXCEPT ![w] = @ + 1]
            /\ pc' = [pc EXCEPT ![w] =
                        IF idx[w] + 1 = Len(chain[w]) THEN "completed" ELSE "running"]
       ELSE /\ idx' = idx
            /\ pc' = [pc EXCEPT ![w] = "failed"]
    /\ UNCHANGED <<db, queue, history, labels, faults, files, responses, active, task, event, chain,
                   resolved, tc0, hook, accepted, retried>>

\* the node the pipeline processes next
current_node(w) == chain[w][idx[w] + 1]

RunExtraction(w) ==
    /\ pc[w] = "running" /\ current_node(w) = "ExtractionNode"
    /\ \E x \in Outcomes("ExtractionNode") :
          Processed(w, "ExtractionNode",
                    ExtractionNode_process(ctx[w], event[w], uuid4(uuids + 1), x))

RunChunking(w) ==
    /\ pc[w] = "running" /\ current_node(w) = "ChunkingNode"
    /\ \E texts \in Outcomes("ChunkingNode") :
          Processed(w, "ChunkingNode", ChunkingNode_process(ctx[w], texts))

RunEmbedding(w) ==
    /\ pc[w] = "running" /\ current_node(w) = "EmbeddingNode"
    /\ \E x \in Outcomes("EmbeddingNode") :
          Processed(w, "EmbeddingNode",
                    EmbeddingNode_process(ctx[w], uuid4(uuids + 1), clock + 1, x))

RunLLMNode(w) ==
    /\ pc[w] = "running" /\ current_node(w) \in LLMNodes
    /\ \E x \in Outcomes(current_node(w)) :
          Processed(w, current_node(w),
                    DoculensLLMNode_process(current_node(w), ctx[w], event[w], x))

RunSearch(w) ==
    /\ pc[w] = "running" /\ current_node(w) = "SemanticSearchNode"
    /\ \E x \in Outcomes("SemanticSearchNode") :
          Processed(w, "SemanticSearchNode",
                    SemanticSearchNode_process(ctx[w], event[w], x))

RunNode(w) ==
    \/ RunExtraction(w)
    \/ RunChunking(w)
    \/ RunEmbedding(w)
    \/ RunLLMNode(w)
    \/ RunSearch(w)

-----------------------------------------------------------------------------
(* process_incoming_event after pipeline.run raised or returned *)

\* a variant that catches the failure and stores the partial context
PersistPartialContext(w) ==
    /\ pc[w] = "failed"
    /\ task[w] > 0
    /\ pc' = [pc EXCEPT ![w] = "raised"]
    /\ db' = [db EXCEPT ![task[w]].task_context =
                 <<[event |-> event[w], nodes |-> ctx[w].nodes,
                    metadata |-> ctx[w].metadata]>>]
    /\ UNCHANGED <<queue, vstore, history, labels, faults, files, responses, uuids, clock, active, task, event,
                   chain, idx, ctx, invoked, calls, resolved, tc0, hook, accepted, retried>>

\* pipeline.run raised: the exception leaves the with block, db_session rolls
\* back and re-raises; nothing is assigned to db_event.task_context
PropagateFailure(w) ==
    /\ pc[w] = "failed"
    /\ task[w] > 0
    /\ pc' = [pc EXCEPT ![w] = "raised"]
    /\ UNCHANGED <<db, queue, vstore, history, labels, faults, files, responses, uuids, clock, active, task, event,
                   chain, idx, ctx, invoked, calls, resolved, tc0, hook, accepted, retried>>

\* a variant that keeps the stored value when it changed since the run loaded it
SaveTaskContext_if_unchanged(w) ==
    /\ pc[w] = "completed"
    /\ task[w] > 0
    /\ db' = IF db[task[w]].task_context = tc0[w]
             THEN [db EXCEPT ![task[w]].task_context =
                      <<model_dump(TaskContext(event[w], ctx[w]))>>]
             ELSE db
    /\ pc' = [pc EXCEPT ![w] = "saved"]
    /\ UNCHANGED <<queue, vstore, history, labels, faults, files, responses, uuids, clock, active, task, event,
                   chain, idx, ctx, invoked, calls, resolved, tc0, hook, accepted, retried>>

\* db_event.task_context = task_context.model_dump(mode="json"); repository.update
SaveTaskContext(w) ==
    /\ pc[w] = "completed"
    /\ task[w] > 0
    /\ db' = [db EXCEPT ![task[w]].task_context =
                 <<model_dump(TaskContext(event[w], ctx[w]))>>]
    /\ pc' = [pc EXCEPT ![w] = "saved"]
    /\ UNCHANGED <<queue, vstore, history, labels, faults, files, responses, uuids, clock, active, task, event,
                   chain, idx, ctx, invoked, calls, resolved, tc0, hook, accepted, retried>>

\* a variant without the try/except around the hooks
HookEndsUncaught(w, outcome) ==
    /\ pc' = [pc EXCEPT ![w] = IF outcome = "raised" THEN "raised" ELSE "done"]
    /\ hook' = [hook EXCEPT ![w] = outcome]

HookEnds(w, outcome) ==
    /\ pc' = [pc EXCEPT ![w] = "done"]
    /\ hook' = [hook EXCEPT ![w] = outcome]

\* event types without a post-processing hook
NoHook(w) ==
    /\ pc[w] = "saved"
    /\ event[w].event_type \notin {"document_upload", "document_summary"}
    /\ HookEnds(w, "none")
    /\ UNCHANGED <<db, queue, vstore, history, labels, faults, files, responses, uuids, clock, active, task, event,
                   chain, idx, ctx, invoked, calls, resolved, tc0, accepted, retried>>

document_meta(w) == Get(ctx[w].metadata, "document", EmptyMap)

existing_summary(document_id) ==
    \E i \in 1..Len(db) :
        /\ db[i].data.event_type = "document_summary"
        /\ db[i].data.document_id = document_id

\* _schedule_post_ingestion_jobs up to the existing-summary query
ScheduleQuery(w) ==
    /\ pc[w] = "saved"
    /\ event[w].event_type = "document_upload"
    /\ LET document_id == Get(document_meta(w), "id", None)
       IN \/ /\ Falsy(document_id) \/ existing_summary(document_id)
             /\ HookEnds(w, "returned")
          \/ /\ ~Falsy(document_id)
             /\ HookEnds(w, "raised")          \* the query raises
          \/ /\ ~Falsy(document_id) /\ ~existing_summary(document_id)
             /\ pc' = [pc EXCEPT ![w] = "scheduling"]
             /\ hook' = hook
    /\ UNCHANGED <<db, queue, vstore, history, labels, faults, files, responses, uuids, clock, active, task, event,
                   chain, idx, ctx, invoked, calls, resolved, tc0, accepted, retried>>

summary_payload(meta) ==
    [Payload("document_summary", meta["id"],
             IF ~Falsy(Get(meta, "original_filename", None)) THEN meta["original_filename"]
             ELSE Get(meta, "ingest_source", None),
             None)
     EXCEPT !.doc_type = Get(meta, "doc_type", None),
            !.limit = SomeInt(summary_chunk_limit)]

\* a variant that enqueues the task before the event is committed
ScheduleSummary_enqueue_first(w) ==
    /\ pc[w] = "scheduling"
    /\ queue' = Append(queue, Len(db) + 1)
    /\ \/ /\ db' = Append(db, [data |-> summary_payload(document_meta(w)),
                                 task_context |-> NoTaskContext])
          /\ HookEnds(w, "scheduled")
       \/ /\ db' = db                            \* commit raises
          /\ HookEnds(w, "raised")
    /\ UNCHANGED <<vstore, history, labels, faults, files, responses, uuids, clock,
                   active, task, event, chain, idx, ctx, invoked, calls, resolved,
                   tc0, accepted, retried>>

\* session.add(summary_event); session.commit(); celery_app.send_task(...)
ScheduleSummary(w) ==
    /\ pc[w] = "scheduling"
    /\ LET stored == Append(db, [data |-> summary_payload(document_meta(w)),
                                 task_context |-> NoTaskContext])
       IN \/ /\ db' = stored                     \* committed and enqueued
             /\ queue' = Append(queue, Len(db) + 1)
             /\ HookEnds(w, "scheduled")
          \/ /\ db' = stored                     \* send_task raises
             /\ queue' = queue
             /\ HookEnds(w, "raised")
          \/ /\ db' = db                         \* commit raises
             /\ queue' = queue
             /\ HookEnds(w, "raised")
    /\ UNCHANGED <<vstore, history, labels, faults, files, responses, uuids, clock, active, task, event,
                   chain, idx, ctx, invoked, calls, resolved, tc0, accepted, retried>>

-----------------------------------------------------------------------------
(* _auto_classify_from_summary and services/classification_audit.py *)

document_summaries(w) == Get(ctx[w].metadata, "document_summaries", EmptyMap)

\* the summaries of this run that the loop would classify
unclassified(w) ==
    {d \in DOMAIN document_summaries(w) :
        ~Falsy(d) /\ ~\E h \in history : h.document_id = d}

\* _auto_classify_from_summary up to the classifier call
ClassifyQuery(w) ==
    /\ pc[w] = "saved"
    /\ event[w].event_type = "document_summary"
    /\ \/ /\ DOMAIN document_summaries(w) = {} \/ ~labels \/ unclassified(w) = {}
          /\ HookEnds(w, "returned")
       \/ /\ DOMAIN document_summaries(w) # {}
          /\ HookEnds(w, "raised")             \* a query raises
       \/ /\ labels /\ unclassified(w) # {}
          /\ pc' = [pc EXCEPT ![w] = "classifying"]
          /\ hook' = hook
    /\ UNCHANGED <<db, queue, vstore, history, labels, faults, files, responses, uuids, clock, active, task, event,
                   chain, idx, ctx, invoked, calls, resolved, tc0, accepted, retried>>

\* str(event.id) of the event stored at position i
EventId(i) == "e" \o ToString(i)

\* the most recent upload event whose stored context carries the document id;
\* failing that, the event whose own id is the document id
get_upload_event_for_document(events, document_id) ==
    LET matches == {i \in 1..Len(events) :
                      /\ events[i].data.event_type = "document_upload"
                      /\ events[i].task_context # NoTaskContext
                      /\ Get(Get(Get(events[i].task_context[1], "metadata", EmptyMap),
                                 "document", EmptyMap), "id", None) = document_id}
        by_id == {i \in 1..Len(events) : EventId(i) = document_id}
    IN IF matches # {} THEN CHOOSE i \in matches : \A j \in matches : j <= i
       ELSE IF by_id # {} THEN CHOOSE i \in by_id : TRUE
       ELSE 0

_update_document_metadata_from_classification(events, document_id, label) ==
    LET i == get_upload_event_for_document(events, document_id)
    IN IF i = 0 THEN events
       ELSE LET tc == events[i].task_context[1]
                meta == Put(Put(tc.metadata, "document",
                                Put(tc.metadata["document"], "doc_type", label)),
                            "classification", [label |-> label, source |-> "ai"])
            IN [events EXCEPT ![i].task_context = <<Put(tc, "metadata", meta)>>,
                              ![i].data.doc_type = label]

audit_event(document_id, label) ==
    [data |-> [Payload("document_classification_local", document_id, None, None)
               EXCEPT !.doc_type = label],
     task_context |-> <<[metadata |-> [classification |-> [label |-> label]]]>>]

\* a variant that dispatches the audit event it stores
RecordClassification_dispatching(w) ==
    /\ pc[w] = "classifying"
    /\ LET document_id == CHOOSE d \in DOMAIN document_summaries(w) : TRUE
           label == "invoice"
           created == Append(db, audit_event(document_id, label))
       IN /\ db' = _update_document_metadata_from_classification(
                       created, document_id, label)
          /\ history' = history \cup
                {[document_id |-> document_id, label_name |-> label,
                  source |-> "ai", auto_classified |-> TRUE, row |-> Len(db) + 1]}
          /\ queue' = Append(queue, Len(db) + 1)
          /\ HookEnds(w, "classified")
    /\ UNCHANGED <<vstore, labels, faults, files, responses, uuids, clock, active, task, event,
                   chain, idx, ctx, invoked, calls, resolved, tc0, accepted, retried>>

\* classifier.classify, then record_classification_result
RecordClassification(w) ==
    /\ pc[w] = "classifying"
    /\ LET document_id == CHOOSE d \in DOMAIN document_summaries(w) : TRUE
           label == "invoice"
           created == Append(db, audit_event(document_id, label))
       IN \/ /\ UNCHANGED <<db, history>>        \* classify raises: continue
             /\ HookEnds(w, "returned")
          \/ /\ db' = created                    \* the final commit raises
             /\ UNCHANGED history
             /\ HookEnds(w, "raised")
          \/ /\ db' = _update_document_metadata_from_classification(
                          created, document_id, label)
             /\ history' = history \cup
                   {[document_id |-> document_id, label_name |-> label,
                     source |-> "ai", auto_classified |-> TRUE, row |-> Len(db) + 1]}
             /\ HookEnds(w, "classified")
    /\ UNCHANGED <<queue, vstore, labels, faults, files, responses, uuids, clock, active, task, event,
                   chain, idx, ctx, invoked, calls, resolved, tc0, accepted, retried>>

\* the task returned or raised; the worker takes the next task
Release(w) ==
    /\ pc[w] \in {"done", "raised"}
    /\ task[w] > 0
    /\ pc' = [pc EXCEPT ![w] = "idle"]
    /\ BeginRun(w, 0, Payload(None, None, None, None),
                [key |-> None, warned |-> FALSE], <<>>, NewContext)
    /\ tc0' = [tc0 EXCEPT ![w] = NoTaskContext]
    /\ UNCHANGED <<db, queue, vstore, history, labels, faults, files, responses, uuids, clock, active,
                   accepted, retried>>

process_incoming_event(w) ==
    \/ StartTask(w)
    \/ RunNode(w)
    \/ PropagateFailure(w)
    \/ SaveTaskContext(w)
    \/ NoHook(w)
    \/ ScheduleQuery(w)
    \/ ScheduleSummary(w)
    \/ ClassifyQuery(w)
    \/ RecordClassification(w)
    \/ Release(w)

Next ==
    \/ handle_event
    \/ UploadRequest
    \/ \E w \in Workers : process_incoming_event(w)

Spec == Init /\ [][Next]_vars

\* the workers keep consuming: a task that is queued is started, and a task
\* that is started takes its next step
SpecFair ==
    Init /\ [][Next]_vars /\ \A w \in Workers : WF_vars(process_incoming_event(w))

-----------------------------------------------------------------------------
(* Direct use of the registry, the pipelines and the nodes, as a caller or a *)
(* unit test does: no event record, no worker                              *)

DirectEvents ==
    {Payload(t, "d1", "a.pdf", "http://a") :
        t \in EventVariants \cup {"default", "unknown_type", None}}
    \cup {Payload("document_upload", None, "ingestion/b.pdf", ""),
          Payload("document_summary", None, "a.pdf", None),
          Payload("document_summary", "", "a.pdf", None)}

\* what a caller may have put into TaskContext.state before calling process
DirectStates ==
    {EmptyMap, "docling_doc" :> "doc", "chunks" :> <<"t">>, "chunks" :> <<>>}

InitDirect ==
    /\ EmptySystem
    /\ labels = FALSE
    /\ faults = TRUE
    /\ active = {"w1"}
    /\ pc = [w \in Workers |-> IF w = "w1" THEN "direct" ELSE "idle"]
    /\ task = [w \in Workers |-> 0]
    /\ event \in [Workers -> DirectEvents \cup {Payload(None, None, None, None)}]
    /\ \A w \in Workers : w # "w1" => event[w] = Payload(None, None, None, None)
    /\ event["w1"] \in DirectEvents
    /\ chain = [w \in Workers |-> <<>>]
    /\ idx = [w \in Workers |-> 0]
    /\ ctx = [w \in Workers |-> NewContext]
    /\ invoked = [w \in Workers |-> <<>>]
    /\ calls = [w \in Workers |-> <<>>]
    /\ resolved = [w \in Workers |-> [key |-> None, warned |-> FALSE]]
    /\ tc0 = [w \in Workers |-> NoTaskContext]
    /\ hook = [w \in Workers |-> "none"]

DirectFrame ==
    UNCHANGED <<db, queue, vstore, history, labels, faults, files, responses, uuids, clock, active, tc0,
                accepted, retried>>

\* PipelineRegistry.get_pipeline(event).run(event)
DirectGetPipeline(w) ==
    /\ pc[w] = "direct"
    /\ LET cls == get_pipeline(event[w])
       IN IF cls # None
          THEN /\ pc' = [pc EXCEPT ![w] = "running"]
               /\ BeginRun(w, 0, event[w], get_pipeline_type(event[w]),
                           pipeline_schema(cls), NewContext)
          ELSE /\ pc' = [pc EXCEPT ![w] = "raised"]
               /\ BeginRun(w, 0, event[w], get_pipeline_type(event[w]),
                           <<>>, NewContext)
    /\ DirectFrame

\* cls().run(event) for a pipeline class of the registry
DirectRun(w) ==
    /\ pc[w] = "direct"
    /\ \E cls \in PipelineClasses :
          BeginRun(w, 0, event[w], resolved[w], pipeline_schema(cls), NewContext)
    /\ pc' = [pc EXCEPT ![w] = "running"]
    /\ DirectFrame

\* node.process(TaskContext(event=event)) for one node
DirectProcess(w) ==
    /\ pc[w] = "direct"
    /\ \E n \in NodeNames, st \in DirectStates :
          BeginRun(w, 0, event[w], resolved[w], <<n>>,
                   [NewContext EXCEPT !.state = st])
    /\ pc' = [pc EXCEPT ![w] = "running"]
    /\ DirectFrame

NextDirect ==
    \E w \in Workers :
        \/ DirectGetPipeline(w)
        \/ DirectRun(w)
        \/ DirectProcess(w)
        \/ RunNode(w)

SpecDirect == InitDirect /\ [][NextDirect]_vars

-----------------------------------------------------------------------------
(* Events already in the events table, dispatched and re-dispatched: to one  *)
(* worker while the external services may fail, to two concurrent workers   *)
(* while they answer reliably                                               *)

StoredPayloads ==
    {Payload("document_upload", None, "a.pdf", "http://a"),
     Payload("document_summary", "d1", None, None),
     Payload("document_summary", None, None, None),
     Payload("document_summary", "", "", None),
     Payload("search_query", None, None, None)}

InitStored ==
    /\ IdleWorker
    /\ \E payload \in StoredPayloads :
          db = <<[data |-> payload, task_context |-> NoTaskContext]>>
    /\ queue = <<1>>
    /\ vstore = {}
    /\ history = {}
    /\ uuids = 0
    /\ clock = 0
    /\ accepted = MaxEvents
    /\ retried = 0
    /\ files = {}
    /\ responses = <<>>
    /\ labels = TRUE
    /\ faults \in BOOLEAN
    /\ active = IF faults THEN {"w1"} ELSE Workers

NextStored ==
    \/ Redispatch
    \/ \E w \in Workers : process_incoming_event(w)

SpecStored == InitStored /\ [][NextStored]_vars

-----------------------------------------------------------------------------
(* Properties *)

Last(q) == q[Len(q)]

\* positions of process_incoming_event after pipeline.run returned
AfterRun == {"completed", "saved", "scheduling", "classifying", "done"}

IngestionChain == <<"ExtractionNode", "ChunkingNode", "EmbeddingNode">>

StoredContext(i) == db[i].task_context[1]

\* C1: when the ingestion pipeline has run to completion on a document_upload
\* event, nodes holds exactly the keys ExtractionNode, ChunkingNode and
\* EmbeddingNode and metadata.document.embedded_chunk_count equals
\* metadata.document.chunk_count, zero chunks included; the same holds of the
\* context stored for the event.
C1_IngestionCounts ==
    /\ \A w \in Workers :
          (pc[w] \in AfterRun /\ event[w].event_type = "document_upload") =>
              /\ DOMAIN ctx[w].nodes = {"ExtractionNode", "ChunkingNode", "EmbeddingNode"}
              /\ ctx[w].metadata["document"]["embedded_chunk_count"]
                    = ctx[w].metadata["document"]["chunk_count"]
              /\ ctx[w].nodes["EmbeddingNode"].embedded_chunks
                    = ctx[w].nodes["ChunkingNode"].chunk_count
    /\ \A i \in 1..Len(db) :
          (db[i].data.event_type = "document_upload"
              /\ db[i].task_context # NoTaskContext) =>
              /\ DOMAIN StoredContext(i).nodes
                    = {"ExtractionNode", "ChunkingNode", "EmbeddingNode"}
              /\ StoredContext(i).metadata["document"]["embedded_chunk_count"]
                    = StoredContext(i).metadata["document"]["chunk_count"]

C1_Witness ==
    \E w \in Workers :
        /\ pc[w] = "saved"
        /\ event[w].event_type = "document_upload"
        /\ ctx[w].metadata["document"]["chunk_count"] = MaxChunks
        /\ Cardinality(vstore) = MaxChunks

\* C2: the value process_incoming_event stores has the keys event, nodes and
\* metadata and no state key, and it is the value any context with the same
\* event, nodes and metadata serializes to, whatever its state holds.
C2_StateNeverSerialized ==
    /\ \A i \in 1..Len(db) :
          (db[i].data.event_type \in EventVariants
              /\ db[i].task_context # NoTaskContext) =>
              DOMAIN StoredContext(i) = {"event", "nodes", "metadata"}
    /\ \A w \in Workers :
          pc[w] = "saved" =>
              \A st \in DirectStates \cup {ctx[w].state} :
                  db[task[w]].task_context =
                      <<model_dump(TaskContext(event[w], [ctx[w] EXCEPT !.state = st]))>>

C2_Witness ==
    \E w \in Workers :
        /\ pc[w] = "saved"
        /\ "local_path" \in DOMAIN ctx[w].state
        /\ db[task[w]].task_context # NoTaskContext

C3_FailedRunState ==
    \A w \in Workers :
        (pc[w] \in {"failed", "raised"} /\ task[w] \in 1..Len(db)) =>
            /\ hook[w] = "none"
            /\ db[task[w]].task_context = tc0[w]

C3_FailedRunStep ==
    \A w \in Workers :
        (pc[w] = "failed" /\ task[w] > 0 /\ pc'[w] # pc[w]) =>
            /\ pc'[w] = "raised"
            /\ db' = db
            /\ queue' = queue
            /\ history' = history
            /\ hook'[w] = "none"

\* C3: when pipeline.run raised, the task raises too, and it does so without
\* changing the events table, without enqueuing a task and without running a
\* hook: the context stored for the event stays the one found when it was loaded.
C3_FailedRunLeavesNoTrace == [](C3_FailedRunState) /\ [][C3_FailedRunStep]_vars

C3_Witness ==
    \E w \in Workers :
        /\ pc[w] = "raised"
        /\ idx[w] = 2
        /\ "document" \in DOMAIN ctx[w].metadata
        /\ db[task[w]].task_context = NoTaskContext

C5_RunState ==
    \A w \in Workers :
        chain[w] # <<>> =>
            /\ invoked[w] = SubSeq(chain[w], 1, Len(invoked[w]))
            /\ Len(invoked[w]) <= Len(chain[w])
            /\ event[w].event_type = "document_upload" =>
                  invoked[w] = SubSeq(IngestionChain, 1, Len(invoked[w]))
            /\ (pc[w] \in AfterRun) <=> (idx[w] = Len(chain[w]))
            /\ (pc[w] \in {"failed", "raised"}) <=> (Len(invoked[w]) = idx[w] + 1)
            /\ (pc[w] = "running") => (Len(invoked[w]) = idx[w])

C5_RunStep ==
    \A w \in Workers :
        (pc[w] \in {"failed", "raised"} /\ pc'[w] # "idle") =>
            /\ invoked'[w] = invoked[w]
            /\ pc'[w] \in {"failed", "raised"}

\* C5: the nodes invoked in a run are a prefix of the declared chain, each at
\* most once (ingestion: ExtractionNode, ChunkingNode, EmbeddingNode); the run
\* is completed iff every node returned; after a node raised the run is
\* failed and no node is invoked again.
C5_ChainOrder == [](C5_RunState) /\ [][C5_RunStep]_vars

C5_Witness ==
    \E w \in Workers :
        /\ pc[w] = "failed"
        /\ invoked[w] = <<"ExtractionNode", "ChunkingNode", "EmbeddingNode">>
        /\ idx[w] = 2


RegisteredKeys ==
    {"default", "document_upload", "document_classification",
     "information_extraction", "document_routing", "search_query",
     "document_summary", "qa_query"}

\* C6: get_pipeline_type answers the event's event_type when it is a key of
\* the pipelines map, without a warning; for every other event_type, a missing
\* one included, it warns and answers "default", whose pipeline is the
\* ingestion pipeline; the answer is always a key of the map.
C6_RegistryResolves ==
    \A w \in Workers :
        resolved[w].key # None =>
            /\ resolved[w].key \in RegisteredKeys
            /\ resolved[w].key \in DOMAIN pipelines
            /\ event[w].event_type \in RegisteredKeys =>
                  (resolved[w].key = event[w].event_type /\ ~resolved[w].warned)
            /\ event[w].event_type \notin RegisteredKeys =>
                  /\ resolved[w].key = "default"
                  /\ resolved[w].warned
                  /\ chain[w] = IngestionChain

C6_Witness ==
    \E w \in Workers :
        /\ event[w].event_type = None
        /\ resolved[w] = [key |-> "default", warned |-> TRUE]
        /\ chain[w] = IngestionChain

RegistryChains == {pipeline_schema(pipelines[k]) : k \in DOMAIN pipelines}

C7_StartNodeStep ==
    \A w \in Workers :
        (/\ pc[w] = "running" /\ idx[w] = 0
         /\ invoked'[w] # invoked[w]
         /\ chain[w] \in RegistryChains
         /\ event[w].event_type # ExpectedVariant(chain[w][1])) =>
            /\ pc'[w] = "failed"
            /\ invoked'[w] = <<chain[w][1]>>
            /\ ctx'[w] = ctx[w]
            /\ calls'[w] = <<>>
            /\ vstore' = vstore

\* C7: when a pipeline of the registry is run with an event that is not the
\* variant of its start node, the start node raises, and that call of process
\* leaves nodes, metadata and state as they were and calls no external service.
C7_MismatchFailsFirst == [][C7_StartNodeStep]_vars

C7_Witness ==
    \E w \in Workers :
        /\ pc[w] = "failed"
        /\ resolved[w].warned
        /\ event[w].event_type = "unknown_type"
        /\ invoked[w] = <<"ExtractionNode">>
        /\ DOMAIN ctx[w].nodes = {} /\ DOMAIN ctx[w].state = {}
        /\ calls[w] = <<>>

\* C8: every node raises when process is called with an event that is not the
\* variant the node is written for (ChunkingNode and EmbeddingNode: the
\* document_upload event of their pipeline).
C8_EveryNodeValidates ==
    \A w \in Workers :
        (invoked[w] # <<>>
            /\ event[w].event_type # IntendedVariant(Last(invoked[w]))) =>
            pc[w] = "failed"

C9_NodesState ==
    \A w \in Workers :
        chain[w] # <<>> =>
            /\ DOMAIN ctx[w].nodes = {chain[w][i] : i \in 1..idx[w]}
            /\ Cardinality(DOMAIN ctx[w].nodes) = idx[w]

C9_NodesStep ==
    \A w \in Workers :
        (pc[w] \notin {"idle", "direct"} /\ pc'[w] # "idle") =>
            \A n \in DOMAIN ctx[w].nodes :
                /\ n \in DOMAIN ctx'[w].nodes
                /\ ctx'[w].nodes[n] = ctx[w].nodes[n]

\* C9: after k nodes of the chain returned, nodes holds exactly the names of
\* those k nodes, and no step of the run removes or changes an entry that is
\* already in nodes.
C9_NodesOnlyGrow == [](C9_NodesState) /\ [][C9_NodesStep]_vars

C9_Witness ==
    \E w \in Workers :
        /\ idx[w] = 3
        /\ DOMAIN ctx[w].nodes = {"ExtractionNode", "ChunkingNode", "EmbeddingNode"}
        /\ ctx[w].nodes["ChunkingNode"].chunk_count = MaxChunks

EmptyAnswer(w) ==
    \E i \in 1..Len(calls[w]) :
        /\ calls[w][i].svc \in {"fetch_document_chunks", "semantic_search"}
        /\ calls[w][i].n = 0

\* C10: when the vector store answered DocumentSummaryNode or QAQueryNode with
\* zero records, the node has raised, no LLM completion was requested, and
\* nodes and metadata are as they were when the node was called.
C10_NothingRetrieved ==
    \A w \in Workers :
        (invoked[w] # <<>>
            /\ Last(invoked[w]) \in {"DocumentSummaryNode", "QAQueryNode"}
            /\ EmptyAnswer(w)) =>
            /\ pc[w] \in {"failed", "raised"}
            /\ \A i \in 1..Len(calls[w]) : calls[w][i].svc # "llm"
            /\ DOMAIN ctx[w].nodes = {}
            /\ DOMAIN ctx[w].metadata = {}
            /\ DOMAIN ctx[w].state = {}

C10_Witness ==
    \E w \in Workers :
        /\ pc[w] = "raised"
        /\ invoked[w] = <<"DocumentSummaryNode">>
        /\ calls[w] = <<Call("fetch_document_chunks", 0)>>

\* a completed run of the single-node pipeline whose node is n
Completed(w, n) == pc[w] \in AfterRun /\ chain[w] = <<n>>

\* C11: after a completed summary run the store answered N > 0 chunks and
\* metadata.document_summaries holds exactly one entry; its key is the event's
\* document_id, else the document_id of the first chunk, and "latest" only when
\* neither is a non-empty id; its source_chunk_count is N and the node result
\* lists min(N, 5) source chunks.
C11_SummaryKeyedByDocument ==
    \A w \in Workers :
        Completed(w, "DocumentSummaryNode") =>
            LET N == calls[w][1].n
                node == ctx[w].nodes["DocumentSummaryNode"]
                summaries == ctx[w].metadata["document_summaries"]
                first_id == node.source_chunks[1].document_id
                resolved_id == IF Falsy(event[w].document_id)
                               THEN first_id ELSE event[w].document_id
                key == IF Falsy(resolved_id) THEN "latest" ELSE resolved_id
            IN  /\ calls[w][1].svc = "fetch_document_chunks"
                /\ N > 0
                /\ DOMAIN summaries = {key}
                /\ summaries[key].source_chunk_count = N
                /\ Len(node.source_chunks) = Min(N, 5)
                /\ \A i \in 1..Len(node.source_chunks) :
                      node.source_chunks[i].chunk_index = i - 1

C11_Witness ==
    \E w \in Workers :
        /\ pc[w] = "saved"
        /\ Completed(w, "DocumentSummaryNode")
        /\ event[w].document_id = None
        /\ calls[w][1].n = MaxFetched
        /\ DOMAIN ctx[w].metadata["document_summaries"] = {"d1"}
        /\ Len(ctx[w].nodes["DocumentSummaryNode"].source_chunks) = 5

\* C12: after a completed QA run in which the search answered K > 0 matches,
\* chunk_references has K entries, the i-th built from the i-th match (its
\* document id, filename, chunk index and the reference derived from them),
\* and metadata.qa.used_chunks is the sequence of those references.
C12_ChunkReferences ==
    \A w \in Workers :
        Completed(w, "QAQueryNode") =>
            LET K == calls[w][1].n
                refs == ctx[w].nodes["QAQueryNode"].chunk_references
            IN  /\ calls[w][1].svc = "semantic_search"
                /\ K > 0
                /\ Len(refs) = K
                /\ \E doc \in {"d1", None} :
                      LET results == StoreRecords(K, doc)
                      IN \A i \in 1..K :
                            /\ refs[i].document_id = results[i].metadata.document_id
                            /\ refs[i].filename = results[i].metadata.filename
                            /\ refs[i].chunk_index = results[i].metadata.chunk_index
                            /\ refs[i].reference =
                                  (IF doc = None THEN "doc" ELSE doc)
                                  \o "#chunk-" \o ToString(results[i].metadata.chunk_index)
                /\ ctx[w].metadata["qa"].used_chunks = [i \in 1..K |-> refs[i].reference]

C12_Witness ==
    \E w \in Workers :
        /\ pc[w] = "saved"
        /\ Completed(w, "QAQueryNode")
        /\ calls[w][1].n = MaxFetched
        /\ Len(ctx[w].nodes["QAQueryNode"].chunk_references) = MaxFetched
        /\ ctx[w].metadata["qa"].used_chunks[2] = "d1#chunk-1"

\* C13: after a completed search run on an event that gives a limit L, the
\* recorded result_count is at most L.
C13_ResultCountWithinLimit ==
    \A w \in Workers :
        (Completed(w, "SemanticSearchNode") /\ event[w].limit # NoInt) =>
            ctx[w].nodes["SemanticSearchNode"].result_count <= event[w].limit[1]

\* C14: after a completed search run, result_count is the length of
\* metadata.search.results, preview is the first min(result_count,
\* search_preview_limit) of those results in order, and results_truncated is
\* true iff the preview is shorter than the results, iff result_count exceeds
\* search_preview_limit.
C14_PreviewTruncation ==
    \A w \in Workers :
        Completed(w, "SemanticSearchNode") =>
            LET node == ctx[w].nodes["SemanticSearchNode"]
                results == ctx[w].metadata["search"].results
            IN  /\ node.result_count = Len(results)
                /\ Len(node.preview) = Min(node.result_count, search_preview_limit)
                /\ \A i \in 1..Len(node.preview) : node.preview[i] = results[i]
                /\ node.results_truncated <=> (Len(node.preview) < Len(results))
                /\ node.results_truncated <=> (node.result_count > search_preview_limit)

C14_Witness ==
    \E w \in Workers :
        /\ pc[w] = "saved"
        /\ Completed(w, "SemanticSearchNode")
        /\ ctx[w].nodes["SemanticSearchNode"].result_count = MaxFetched
        /\ Len(ctx[w].nodes["SemanticSearchNode"].preview) = search_preview_limit
        /\ ctx[w].nodes["SemanticSearchNode"].results_truncated

\* C15: the limit SemanticSearchNode hands to the search is the event's limit
\* when the event gives one and search_result_limit otherwise, and a completed
\* run records that value in metadata.search.limit and in the node result.
C15_EffectiveLimit ==
    \A w \in Workers :
        (chain[w] = <<"SemanticSearchNode">> /\ calls[w] # <<>>) =>
            LET effective == IF event[w].limit # NoInt
                             THEN event[w].limit[1] ELSE search_result_limit
            IN  /\ calls[w][1].limit = effective
                /\ pc[w] \in AfterRun =>
                      /\ ctx[w].metadata["search"].limit = effective
                      /\ ctx[w].nodes["SemanticSearchNode"].limit = effective

\* the rejected upload left nothing behind: not its file, not an event
NothingKept(r) ==
    /\ r.status = 400
    /\ r.stored_path \notin files
    /\ \A i \in 1..Len(db) : db[i].data.filename # r.stored_path

\* a 400 answer of upload_document changes neither the events table nor the
\* queue nor the ingestion directory
C18_RejectionStep ==
    (Len(responses') > Len(responses) /\ Last(responses').status = 400) =>
        /\ db' = db
        /\ queue' = queue
        /\ files' = files

\* C18 as stated: every upload whose metadata form value is not valid JSON, or
\* is valid JSON but not an object, is answered 400 and leaves no file and no
\* event.
C18_InvalidMetadataRejected ==
    \A i \in 1..Len(responses) :
        (/\ ~Falsy(responses[i].filename)
         /\ responses[i].metadata # None
         /\ ~(json_loads(responses[i].metadata).ok
              /\ json_loads(responses[i].metadata).is_dict)) =>
            NothingKept(responses[i])

C18_NonEmptyState ==
    \A i \in 1..Len(responses) :
        (/\ ~Falsy(responses[i].filename)
         /\ ~Falsy(responses[i].metadata)
         /\ ~(json_loads(responses[i].metadata).ok
              /\ json_loads(responses[i].metadata).is_dict)) =>
            NothingKept(responses[i])

\* C18: every upload whose metadata form value is non-empty and is not valid
\* JSON, or is valid JSON but not an object, is answered 400, stores and
\* dispatches no event, and the file written for it is no longer in the
\* ingestion directory.
C18_NonEmptyInvalidMetadataRejected ==
    [](C18_NonEmptyState) /\ [][C18_RejectionStep]_vars

C18_Witness ==
    \E i \in 1..Len(responses) :
        /\ responses[i].metadata = "[1]"
        /\ responses[i].status = 400
        /\ responses[i].stored_path = "u1_a.pdf"
        /\ uuids = 1
        /\ files = {}
        /\ db = <<>>

HasIdentifier(data) == ~Falsy(data.document_id) \/ ~Falsy(data.filename)

IsSummary(data) == data.event_type = "document_summary"

\* C16: a document_summary payload validates iff document_id or filename is
\* non-empty; a task whose stored payload has neither raises at validation:
\* no pipeline type is resolved, no pipeline is instantiated, no node is
\* invoked and the event's task_context stays unwritten; a payload with an
\* identifier gets the summary pipeline.
C16_SummaryNeedsIdentifier ==
    /\ \A data \in StoredPayloads \cup ApiPayloads \cup DirectEvents :
          IsSummary(data) => (validate_python(data) <=> HasIdentifier(data))
    /\ \A i \in 1..Len(db) :
          (IsSummary(db[i].data) /\ ~HasIdentifier(db[i].data)) =>
              db[i].task_context = NoTaskContext
    /\ \A w \in Workers :
          (task[w] \in 1..Len(db) /\ IsSummary(db[task[w]].data)) =>
              IF HasIdentifier(db[task[w]].data)
              THEN chain[w] = <<"DocumentSummaryNode">>
              ELSE /\ pc[w] = "raised"
                   /\ resolved[w].key = None
                   /\ chain[w] = <<>>
                   /\ invoked[w] = <<>>
                   /\ calls[w] = <<>>

C16_Witness ==
    \E w \in Workers :
        /\ pc[w] = "raised"
        /\ task[w] = 1
        /\ db[1].data = Payload("document_summary", "", "", None)
        /\ db[1].task_context = NoTaskContext
        /\ retried = 1
        /\ queue = <<>>

StoredIds(store) == {r.id : r \in store}

UploadRows == {i \in 1..Len(db) : db[i].data.event_type = "document_upload"}

C17_UpsertStep ==
    /\ vstore \subseteq vstore'
    /\ \A w \in Workers :
          (/\ Len(invoked'[w]) > Len(invoked[w])
           /\ Last(invoked'[w]) = "EmbeddingNode"
           /\ pc'[w] # "failed") =>
              LET ids == ctx'[w].metadata["document"]["vector_ids"]
              IN  /\ \A i \in 1..Len(ids) :
                        /\ ids[i] \notin StoredIds(vstore)
                        /\ ids[i] \in StoredIds(vstore')
                  /\ Cardinality(vstore') = Cardinality(vstore) + Len(ids)

\* C17: every run of EmbeddingNode, a run of a re-dispatched upload event
\* included, adds one record per chunk under ids that no stored record has,
\* and no step removes or replaces a stored record.
C17_DisjointVectorIds == [][C17_UpsertStep]_vars

C17_Witness ==
    /\ retried = 1
    /\ Cardinality(UploadRows) = 1
    /\ Cardinality(vstore) = 2 * MaxChunks
    /\ Cardinality({r.id[1] : r \in vstore}) = 2
    /\ Cardinality({r.document_id : r \in vstore}) = 2

SummaryRows(document_id) ==
    {i \in 1..Len(db) : IsSummary(db[i].data) /\ db[i].data.document_id = document_id}

C19_State ==
    \A i \in 1..Len(db) :
        (IsSummary(db[i].data) /\ ~Falsy(db[i].data.document_id)) =>
            SummaryRows(db[i].data.document_id) = {i}

C19_Step ==
    /\ (Len(db') > Len(db) /\ IsSummary(Last(db').data)) =>
          \E w \in Workers :
              /\ pc[w] = "scheduling"
              /\ event[w].event_type = "document_upload"
              /\ ~Falsy(ctx[w].metadata["document"]["id"])
              /\ Last(db').data.document_id = ctx[w].metadata["document"]["id"]
              /\ SummaryRows(ctx[w].metadata["document"]["id"]) = {}
              /\ db' = Append(db, Last(db'))
              /\ queue' \in {queue, Append(queue, Len(db'))}
    /\ \A w \in Workers :
          (hook'[w] = "scheduled" /\ hook[w] # "scheduled") =>
              /\ Len(db') = Len(db) + 1
              /\ queue' = Append(queue, Len(db'))
              /\ IsSummary(Last(db').data)
              /\ Last(db').data.document_id = ctx[w].metadata["document"]["id"]
    /\ \A w \in Workers :
          (/\ pc[w] = "saved" /\ pc'[w] = "done"
           /\ event[w].event_type = "document_upload") =>
              (db' = db /\ queue' = queue)

C20_State ==
    /\ \A k \in 1..Len(queue) : queue[k] \in 1..Len(db)
    /\ \A w \in Workers : task[w] > 0 => task[w] \in 1..Len(db)

C20_Step ==
    /\ Len(queue') > Len(queue) =>
          /\ queue' = Append(queue, Last(queue'))
          /\ Last(queue') \in 1..Len(db')
    /\ (Len(db') > Len(db) /\ IsSummary(Last(db').data)
           /\ Last(db').data \notin ApiPayloads) =>
          \E w \in Workers :
              /\ pc[w] = "scheduling"
              /\ db[task[w]].task_context = <<model_dump(TaskContext(event[w], ctx[w]))>>

\* C20: every id in the queue, and every id a worker took from it, is the id
\* of a stored event, so no run ends with "not found"; a step that enqueues
\* an id leaves the events table holding that id; and the summary event of
\* an upload is stored only when the upload's task_context has been saved.
C20_StoredBeforeEnqueued == [](C20_State) /\ [][C20_Step]_vars

C20_Witness ==
    /\ Len(db) = 2
    /\ db[1].data.event_type = "document_upload"
    /\ db[1].task_context # NoTaskContext
    /\ IsSummary(db[2].data)
    /\ \E w \in Workers : task[w] = 2 /\ pc[w] = "running"

-----------------------------------------------------------------------------
(* A run on its own *)

\* what the external services answer when they are reliable
NominalOutcome(n) ==
    CASE n = "ExtractionNode" -> [download |-> "ok", exists |-> TRUE, convert |-> "doc"]
      [] n = "ChunkingNode" -> [i \in 1..MaxChunks |-> "t"]
      [] n = "EmbeddingNode" -> "ok"
      [] OTHER -> [store |-> "ok", found |-> 1, chunk_doc |-> "d1", llm |-> "ok"]

\* the context a run of event e ends with when no other run exists, given
\* the uuid u and the time t it draws
Alone(e, u, t) ==
    LET nodes == pipeline_schema(get_pipeline(e))
    IN  IF nodes = IngestionChain
        THEN LET c1 == ExtractionNode_process(
                           NewContext, e, u, NominalOutcome("ExtractionNode")).ctx
                 c2 == ChunkingNode_process(c1, NominalOutcome("ChunkingNode")).ctx
             IN EmbeddingNode_process(c2, u, t, NominalOutcome("EmbeddingNode")).ctx
        ELSE IF nodes = <<"SemanticSearchNode">>
        THEN SemanticSearchNode_process(
                 NewContext, e, NominalOutcome("SemanticSearchNode")).ctx
        ELSE DoculensLLMNode_process(
                 nodes[1], NewContext, e, NominalOutcome(nodes[1])).ctx

-----------------------------------------------------------------------------
(* Document lifecycle, app/services/document_lifecycle.py, and the listings *)
(* of app/api/endpoint.py that read the status it writes                    *)

\* archive, delete, restore and listing requests the API handles
MaxLifecycle == 3

\* dict.update
update(m, u) == u @@ m

\* dict.pop(key, None) for every key of the set
pop_keys(m, keys) == [x \in (DOMAIN m) \ keys |-> m[x]]

\* status and "<status>_at", as every block receives them
status_stamp(status, timestamp) ==
    ((status \o "_at") :> timestamp) @@ ("status" :> status)

\* a variant that ignores clear_keys
_apply_status_to_upload_event_keeping(upload_event, status, timestamp, flags, clear_keys) ==
    LET task_context == IF upload_event.task_context = NoTaskContext
                        THEN EmptyMap ELSE upload_event.task_context[1]
        metadata_block0 == Get(task_context, "metadata", EmptyMap)
        document_meta0 == Get(metadata_block0, "document", EmptyMap)
        nested_metadata0 == Get(document_meta0, "metadata", EmptyMap)
        nested_metadata ==
            update(update(nested_metadata0, status_stamp(status, timestamp)), flags)
        document_block ==
            Put(update(update(document_meta0, status_stamp(status, timestamp)), flags),
                "metadata", nested_metadata)
        metadata_block ==
            update(Put(metadata_block0, "document", document_block),
                   status_stamp(status, timestamp))
        upload_meta ==
            update(update(Get(upload_event.data, "metadata", EmptyMap),
                          status_stamp(status, timestamp)), flags)
    IN  [data |-> Put(upload_event.data, "metadata", upload_meta),
         task_context |-> <<Put(task_context, "metadata", metadata_block)>>]

_apply_status_to_upload_event(upload_event, status, timestamp, flags, clear_keys) ==
    LET task_context == IF upload_event.task_context = NoTaskContext
                        THEN EmptyMap ELSE upload_event.task_context[1]
        metadata_block0 == Get(task_context, "metadata", EmptyMap)
        document_meta0 == Get(metadata_block0, "document", EmptyMap)
        nested_metadata0 == Get(document_meta0, "metadata", EmptyMap)
        nested_metadata ==
            update(update(pop_keys(nested_metadata0, clear_keys),
                          status_stamp(status, timestamp)), flags)
        document_block ==
            Put(update(update(pop_keys(document_meta0, clear_keys),
                              status_stamp(status, timestamp)), flags),
                "metadata", nested_metadata)
        metadata_block ==
            update(Put(pop_keys(metadata_block0, clear_keys), "document", document_block),
                   status_stamp(status, timestamp))
        upload_meta ==
            update(update(pop_keys(Get(upload_event.data, "metadata", EmptyMap), clear_keys),
                          status_stamp(status, timestamp)), flags)
    IN  [data |-> Put(upload_event.data, "metadata", upload_meta),
         task_context |-> <<Put(task_context, "metadata", metadata_block)>>]

\* datetime.now(timezone.utc).isoformat()
isoformat(t) == "t" \o ToString(t)

\* the Event row a lifecycle call adds
lifecycle_event(event_type, document_id, at_key, timestamp) ==
    [data |-> (at_key :> timestamp) @@
              [event_type |-> event_type, document_id |-> document_id, reason |-> None],
     task_context |-> NoTaskContext]

LifecycleFrame ==
    UNCHANGED <<queue, history, labels, faults, files, uuids, active, workerVars, retried>>

\* one lifecycle call: 404 when no upload event is found, else the status is
\* applied, the lifecycle event added and both committed
lifecycle_call(document_id, status, event_type, flags, clear_keys) ==
    LET i == get_upload_event_for_document(db, document_id)
        timestamp == isoformat(clock + 1)
    IN  /\ accepted < MaxLifecycle
        /\ accepted' = accepted + 1
        /\ IF i = 0
           THEN /\ responses' = Append(responses,
                      [document_id |-> document_id, status |-> 404])
                /\ UNCHANGED <<db, clock>>
           ELSE /\ clock' = clock + 1
                /\ db' = Append(
                      [db EXCEPT ![i] = _apply_status_to_upload_event(
                                            db[i], status, timestamp, flags, clear_keys)],
                      lifecycle_event(event_type, document_id, status \o "_at", timestamp))
                /\ responses' = Append(responses,
                      [document_id |-> document_id, status |-> status, at |-> timestamp])

archive_document(document_id) ==
    /\ lifecycle_call(document_id, "archived", "document_archived",
                      "archived" :> TRUE, {})
    /\ UNCHANGED vstore
    /\ LifecycleFrame

\* VectorStore.delete(metadata_filter={"document_id": document_id})
purge(store, document_id) == {r \in store : r.document_id # document_id}

delete_document(document_id, purge_vectors) ==
    /\ lifecycle_call(document_id, "deleted", "document_deleted",
                      "deleted" :> TRUE, {})
    /\ \/ /\ purge_vectors
          /\ get_upload_event_for_document(db, document_id) # 0
          /\ vstore' = purge(vstore, document_id)
       \/ vstore' = vstore                 \* no purge asked, or the purge failed
    /\ LifecycleFrame

restore_document(document_id) ==
    /\ lifecycle_call(document_id, "processing", "document_restored",
                      "restored_at" :> isoformat(clock + 1), {"archived", "archived_at"})
    /\ UNCHANGED vstore
    /\ LifecycleFrame

\* the three places the listings read an upload's lifecycle fields from
listing_document_meta(row) ==
    IF row.task_context = NoTaskContext THEN EmptyMap
    ELSE Get(Get(row.task_context[1], "metadata", EmptyMap), "document", EmptyMap)

listing_doc_metadata_inner(row) == Get(listing_document_meta(row), "metadata", EmptyMap)

listing_upload_meta(row) == Get(row.data, "metadata", EmptyMap)

\* a.get(k) or b.get(k) or c.get(k) for string values
first_of(row, k) ==
    LET a == Get(listing_document_meta(row), k, None)
        b == Get(listing_doc_metadata_inner(row), k, None)
        c == Get(listing_upload_meta(row), k, None)
    IN IF ~Falsy(a) THEN a ELSE IF ~Falsy(b) THEN b ELSE c

\* str.lower on the status values that occur
lower(s) ==
    CASE s = "DELETED" -> "deleted"
      [] s = "Archived" -> "archived"
      [] OTHER -> s

status_lower(row) == lower(first_of(row, "status"))

\* document_meta.get("deleted") or ... : the flag is set in one of the places
deleted_flag(row) ==
    \/ Get(listing_document_meta(row), "deleted", FALSE)
    \/ Get(listing_doc_metadata_inner(row), "deleted", FALSE)
    \/ Get(listing_upload_meta(row), "deleted", FALSE)

UploadEvents(events) ==
    {i \in 1..Len(events) : events[i].data.event_type = "document_upload"}

\* the uploads list_documents returns
listed_documents(events) ==
    {i \in UploadEvents(events) : status_lower(events[i]) # "deleted"}

\* the uploads get_dashboard_insights counts in total_documents
counted_documents(events) ==
    {i \in UploadEvents(events) :
        ~(\/ status_lower(events[i]) = "deleted"
          \/ deleted_flag(events[i])
          \/ ~Falsy(first_of(events[i], "deleted_at")))}

list_documents ==
    /\ accepted < MaxLifecycle
    /\ accepted' = accepted + 1
    /\ responses' = Append(responses,
          [endpoint |-> "list_documents",
           documents |-> {EventId(i) : i \in listed_documents(db)}])
    /\ UNCHANGED <<db, clock, vstore>>
    /\ LifecycleFrame

get_dashboard_insights ==
    /\ accepted < MaxLifecycle
    /\ accepted' = accepted + 1
    /\ responses' = Append(responses,
          [endpoint |-> "get_dashboard_insights",
           total_documents |-> Cardinality(counted_documents(db))])
    /\ UNCHANGED <<db, clock, vstore>>
    /\ LifecycleFrame

\* metadata an upload request may carry
UploadMetadata == {EmptyMap, [status |-> "DELETED"], [archived |-> TRUE]}

\* the upload event of a.pdf, before its run and after it completed
LifecycleUploads ==
    LET e == Payload("document_upload", None, "a.pdf", "http://a")
    IN {[data |-> Put(e, "metadata", meta), task_context |-> tc] :
           meta \in UploadMetadata,
           tc \in {NoTaskContext,
                   <<model_dump(TaskContext(e, Alone(e, uuid4(1), 1)))>>}}

\* document ids a request may name: the document's, the event's, an unknown one
RequestedIds == {uuid4(1), EventId(1), "zz"}

InitLifecycle ==
    /\ IdleWorker
    /\ \E row \in LifecycleUploads :
          /\ db = <<row>>
          /\ vstore = IF row.task_context = NoTaskContext THEN {}
                      ELSE {[id |-> <<1, 0>>, document_id |-> uuid4(1),
                             chunk_index |-> 0, contents |-> "t"]}
    /\ queue = <<>>
    /\ history = {}
    /\ uuids = 1
    /\ clock = 1
    /\ accepted = 0
    /\ retried = 0
    /\ files = {}
    /\ responses = <<>>
    /\ labels = FALSE
    /\ faults = FALSE
    /\ active = {}

NextLifecycle ==
    \/ \E document_id \in RequestedIds : archive_document(document_id)
    \/ \E document_id \in RequestedIds, purge_vectors \in BOOLEAN :
          delete_document(document_id, purge_vectors)
    \/ \E document_id \in RequestedIds : restore_document(document_id)
    \/ list_documents
    \/ get_dashboard_insights

SpecLifecycle == InitLifecycle /\ [][NextLifecycle]_vars

-----------------------------------------------------------------------------
(* Third group of properties *)

\* the state get_pipeline leaves when it raises "Unknown pipeline type"
UnknownPipelineType(w) ==
    /\ pc[w] = "raised"
    /\ resolved[w].key # None
    /\ chain[w] = <<>>

\* C30: get_pipeline raises "Unknown pipeline type" only when the key that
\* get_pipeline_type resolved has no class in the pipelines map; the shipped
\* map holds "default", the key every unregistered or missing event_type
\* resolves to, so no event_type makes get_pipeline raise: each call answers
\* the schema of the class registered under the resolved key.
C30_UnknownPipelineUnreachable ==
    \A w \in Workers :
        /\ UnknownPipelineType(w) => resolved[w].key \notin DOMAIN pipelines
        /\ "default" \in DOMAIN pipelines
        /\ ~UnknownPipelineType(w)
        /\ (get_pipeline(event[w]) = None) <=>
               (get_pipeline_type(event[w]).key \notin DOMAIN pipelines)
        /\ (resolved[w].key # None /\ invoked[w] = <<>> /\ pc[w] = "running"
              /\ resolved[w].key \in DOMAIN pipelines) =>
               chain[w] = pipeline_schema(pipelines[resolved[w].key])

C30_Witness ==
    \E w \in Workers :
        /\ event[w].event_type = "unknown_type"
        /\ resolved[w].key = "default"
        /\ pc[w] = "running"
        /\ chain[w] = pipeline_schema(pipelines["default"])
        /\ invoked[w] = <<>>

\* the working artifacts the nodes keep in TaskContext.state during a run
HeavyArtifacts ==
    {"docling_doc", "chunks", "summary_chunks", "summary_context", "qa_chunks"}

\* C24: once a run of a registered pipeline has completed, TaskContext.state
\* holds none of docling_doc, chunks, summary_chunks, summary_context and
\* qa_chunks: EmbeddingNode removes the first two and the summary and QA nodes
\* remove theirs in after_completion.
C24_ArtifactsDropped ==
    \A w \in Workers :
        (pc[w] \in AfterRun /\ chain[w] \in RegistryChains) =>
            DOMAIN ctx[w].state \cap HeavyArtifacts = {}

\* a completed QA run, whose retrieved chunks were in state during the run
C24_Witness ==
    \E w \in Workers :
        /\ pc[w] \in AfterRun
        /\ chain[w] = <<"QAQueryNode">>
        /\ "QAQueryNode" \in DOMAIN ctx[w].nodes
        /\ ctx[w].nodes["QAQueryNode"].chunk_references # <<>>
        /\ DOMAIN ctx[w].state \cap HeavyArtifacts = {}

\* the vector-store records a completed ingestion run upserted
UpsertedBy(w) ==
    LET ids == document_meta(w)["vector_ids"]
    IN {r \in vstore : \E i \in 1..Len(ids) : ids[i] = r.id}

C26_State ==
    \A w \in Workers :
        (pc[w] \in AfterRun /\ chain[w] = IngestionChain) =>
            LET D == document_meta(w)["id"]
            IN /\ ~Falsy(D)
               /\ ctx[w].nodes["ExtractionNode"].document_id = D
               /\ \A r \in UpsertedBy(w) : r.document_id = D
               /\ Cardinality(UpsertedBy(w)) = document_meta(w)["embedded_chunk_count"]

C26_Step ==
    \A w \in Workers :
        (pc[w] = "scheduling" /\ pc'[w] # "scheduling" /\ Len(db') = Len(db) + 1) =>
            /\ Last(db').data.event_type = "document_summary"
            /\ Last(db').data.document_id = document_meta(w)["id"]
            /\ ~Falsy(Last(db').data.document_id)
            /\ validate_python(Last(db').data)

\* C26: a completed ingestion run carries one document id: the document_id of
\* ExtractionNode's node result is metadata.document.id and is the document_id
\* of every chunk the run upserted, EmbeddingNode keeping the id that is set;
\* that id is non-empty and is the document_id of the summary event the upload
\* hook stores, so the scheduled event passes the summary event's validation.
C26_OneDocumentId == [](C26_State) /\ [][C26_Step]_vars

C26_Witness ==
    \E w \in Workers :
        /\ pc[w] = "done"
        /\ chain[w] = IngestionChain
        /\ hook[w] = "scheduled"
        /\ Cardinality(UpsertedBy(w)) = MaxChunks
        /\ Last(db).data.document_id = ctx[w].nodes["ExtractionNode"].document_id

\* worker v is inside a run of the event that worker w takes next
Overlapping(w, v) ==
    /\ v # w
    /\ pc[w] = "idle"
    /\ w \in active
    /\ queue # <<>>
    /\ task[v] = Head(queue)
    /\ pc[v] \notin {"idle", "raised"}

C21_State ==
    \A w \in Workers :
        (w \in active /\ pc[w] = "idle" /\ queue # <<>>) => ENABLED StartTask(w)

C21_Step ==
    \A w \in Workers :
        /\ (\E v \in Workers : Overlapping(w, v)) /\ pc'[w] # "idle" =>
              /\ task'[w] = Head(queue)
              /\ validate_python(db[task'[w]].data) =>
                    /\ pc'[w] = "running"
                    /\ idx'[w] = 0
                    /\ invoked'[w] = <<>>
                    /\ ctx'[w] = NewContext
                    /\ chain'[w] = pipeline_schema(get_pipeline(db[task'[w]].data))
        /\ (pc[w] = "completed" /\ pc'[w] = "saved") =>
              /\ db'[task[w]].task_context =
                     <<model_dump(TaskContext(event[w], ctx[w]))>>
              /\ \A i \in 1..Len(db) : i # task[w] => db'[i] = db[i]

\* C21: a second run of an event id starts while the first is still running:
\* it is neither blocked nor rejected, starts at the first node with an empty
\* context, and each run that completes writes its own task_context over the
\* stored one, so the stored value is that of the run that saved last.
C21_LastWriterWins == [](C21_State) /\ [][C21_Step]_vars

\* two runs of event 1 that both loaded it before either saved, both saved,
\* with different contexts: the stored one is w2's, w1's is lost
C21_Witness ==
    /\ task["w1"] = 1 /\ task["w2"] = 1
    /\ tc0["w1"] = NoTaskContext /\ tc0["w2"] = NoTaskContext
    /\ pc["w1"] \in AfterRun \ {"completed"}
    /\ pc["w2"] \in AfterRun \ {"completed"}
    /\ ctx["w1"].metadata # ctx["w2"].metadata
    /\ db[1].task_context = <<model_dump(TaskContext(event["w2"], ctx["w2"]))>>

C22_State ==
    \A w \in Workers :
        (~faults /\ pc[w] \in AfterRun) =>
            \E u \in 0..uuids, t \in 0..clock :
                /\ ctx[w].nodes = Alone(event[w], uuid4(u), t).nodes
                /\ ctx[w].metadata = Alone(event[w], uuid4(u), t).metadata
                /\ ctx[w].state = Alone(event[w], uuid4(u), t).state

C22_Step ==
    \A w, v \in Workers :
        (v # w /\ ctx'[w] # ctx[w]) =>
            /\ ctx'[v] = ctx[v] /\ chain'[v] = chain[v] /\ idx'[v] = idx[v]
            /\ invoked'[v] = invoked[v] /\ event'[v] = event[v] /\ pc'[v] = pc[v]

C23_State ==
    \A k \in 1..Len(queue) :
        queue[k] \in 1..Len(db) =>
            db[queue[k]].data.event_type # "document_classification_local"

C23_Step ==
    /\ Len(queue') <= Len(queue) + 1
    /\ Len(queue') = Len(queue) + 1 =>
          \/ accepted' = accepted + 1
          \/ \E w \in Workers :
                /\ event[w].event_type = "document_upload"
                /\ pc[w] = "scheduling" /\ pc'[w] = "done"
                /\ hook[w] = "none" /\ hook'[w] = "scheduled"
                /\ IsSummary(db'[Last(queue')].data)
    /\ \A w \in Workers :
          (event[w].event_type = "document_summary" /\ pc[w] # "idle"
             /\ pc'[w] # pc[w]) => Len(queue') <= Len(queue)

C23_Quiet == queue = <<>> /\ \A w \in Workers : pc[w] = "idle"

\* C23: the work that follows an upload is finite: a run enqueues at most one
\* task, only the hook of an upload run does so, once, for a summary event; a
\* summary run enqueues nothing and the audit event its classification stores
\* is never dispatched; when the workers keep taking queued tasks, the system
\* ends in a state with no pending task and stays there.
C23_FollowUpTerminates ==
    [](C23_State) /\ [][C23_Step]_vars /\ <>[](C23_Quiet)

\* upload, its summary and the classification have all run; nothing is pending
C23_Witness ==
    /\ C23_Quiet
    /\ Len(db) = 3
    /\ db[1].data.event_type = "document_upload"
    /\ IsSummary(db[2].data)
    /\ db[3].data.event_type = "document_classification_local"
    /\ db[2].task_context # NoTaskContext

AutoEntries(d) == {h \in history : h.document_id = d /\ h.auto_classified}

C25_State ==
    \A h \in history : Cardinality(AutoEntries(h.document_id)) <= 1

C25_Step ==
    \A h \in history' \ history :
        /\ labels
        /\ h.auto_classified => ~\E g \in history : g.document_id = h.document_id

\* C25: the summary hook records a classification only when a candidate label
\* is configured and the document has no history entry; across every sequence
\* and interleaving of summary runs it adds no automatic entry to a document
\* that already has an entry, and a document has at most one auto-classified
\* entry.
C25_OneAutoClassification == [](C25_State) /\ [][C25_Step]_vars

LifecycleStatus ==
    [document_archived |-> "archived", document_deleted |-> "deleted",
     document_restored |-> "processing"]

\* the positions of the lifecycle calls that succeeded on the upload at i
LifecycleCalls(i) ==
    {k \in 1..Len(db) :
        /\ db[k].data.event_type \in DOMAIN LifecycleStatus
        /\ get_upload_event_for_document(db, db[k].data.document_id) = i}

\* the four places that store the status of the upload row
StatusPlaces(row) ==
    LET metadata_block == Get(row.task_context[1], "metadata", EmptyMap)
    IN <<metadata_block,
         Get(metadata_block, "document", EmptyMap),
         Get(Get(metadata_block, "document", EmptyMap), "metadata", EmptyMap),
         Get(row.data, "metadata", EmptyMap)>>

\* C27: after any sequence of successful archive, delete and restore calls on
\* a document, its upload event holds the status of the last call ("archived",
\* "deleted" or "processing") in task_context.metadata, in
\* task_context.metadata.document, in the nested document metadata and in
\* data.metadata alike; after a restore none of the four holds an archived or
\* archived_at key.
C27_StatusOfLastCall ==
    \A i \in UploadEvents(db) :
        LifecycleCalls(i) # {} =>
            LET last == CHOOSE k \in LifecycleCalls(i) : \A j \in LifecycleCalls(i) : j <= k
                status == LifecycleStatus[db[last].data.event_type]
            IN \A n \in 1..4 :
                  /\ "status" \in DOMAIN StatusPlaces(db[i])[n]
                  /\ StatusPlaces(db[i])[n]["status"] = status
                  /\ status = "processing" =>
                        DOMAIN StatusPlaces(db[i])[n] \cap {"archived", "archived_at"} = {}

\* archived by document id, then restored by event id
C27_Witness ==
    /\ Len(db) = 3
    /\ db[2].data.event_type = "document_archived"
    /\ db[2].data.document_id = uuid4(1)
    /\ db[3].data.event_type = "document_restored"
    /\ db[3].data.document_id = EventId(1)
    /\ \A n \in 1..4 : StatusPlaces(db[1])[n]["status"] = "processing"
    /\ "restored_at" \in DOMAIN StatusPlaces(db[1])[4]

\* C28: list_documents and get_dashboard_insights agree on whether an upload
\* is excluded as deleted, after any sequence of archive, delete and restore
\* calls: each hides it exactly when the other does, so a document deleted and
\* then restored is listed and counted again by both.
C28_ListingsAgree == listed_documents(db) = counted_documents(db)

====
